---- MODULE Spec2Model ----
(***************************************************************************)
(* Model of the HiTemp coordinator (custom_components/hitemp/coordinator.py *)
(* with the transport client of api.py): the register snapshot, the poll    *)
(* cycle, the "minimum" virtual thermostat and the COP estimator.           *)
(*                                                                          *)
(* Numbers.  Temperatures are integers counting 0.05 degC (70.0 degC is     *)
(* 1400), so that sensor values on a 0.1 degC grid and the halved sums the  *)
(* controller writes are exact.  The energy meter counts whole kWh and the  *)
(* stored energy counts 5e-8 kWh (300 * 1163e-6 kWh/K * 0.05 K); the COP    *)
(* counts hundredths.  Python's float comparisons are taken as exact, except *)
(* in the calls of the two calculations of the thermostat, where the         *)
(* rounding of double arithmetic is tracked (section "Double arithmetic").   *)
(*                                                                          *)
(* Scheduling.  The coordinator runs on one cooperative event loop: a       *)
(* handler runs without interruption between two awaits of network I/O.     *)
(* pc is the position of the poll cycle; the calls of the presentation      *)
(* layer run only while the cycle is idle or suspended at a network call.   *)
(* When cycles start is decided by the framework's DataUpdateCoordinator,   *)
(* which is not part of the repository: cycles are taken to run one at a    *)
(* time.                                                                    *)
(***************************************************************************)
EXTENDS Integers, Sequences, FiniteSets, TLC

VARIABLES
    client,                 \* self._client is set (coordinator.py:44, 61)
    token,                  \* HiTempApiClient._token is set (api.py:44)
    devices,                \* self.devices (coordinator.py:45)
    data,                   \* self.data: deviceCode -> [_device, _params]
    result,                 \* outcome of the most recent cycle or setup
    refresh_requested,      \* a refresh was requested since the last cycle start
    minimum_control_enabled,\* self._minimum_control_enabled
    minimum_target,         \* self._minimum_target
    last_max_temp,          \* self._last_max_temp
    last_r01,               \* self._last_r01
    cop_last_energy_meter,  \* self._cop_last_energy_meter
    cop_energy_stored_at_meter_change,
    cop_current,            \* self._cop_current
    pc,                     \* position of the poll cycle
    new_data,               \* the local `data` of _async_update_data
    idx,                    \* index into self.devices of the read loop
    pidx,                   \* index of the control/COP loop
    pending,                \* the value of the write reconcile is awaiting
    dev_r01,                \* the setpoint register R01 held by each device
    energy_meter,           \* state of sensor.water_heater_energy
    writes,                 \* history: writes issued by the controller in this cycle
    ext_pending,            \* history: R01 written by another party since its last read
    ext_seen,               \* history: ... between the last baseline and the last read
    stale_r01,              \* history: last_r01 dates from an enabled period that ended before the last enable
    taken,                  \* history: the device and its control state at the start of the last pass
    data_at_start,          \* history: self.data when the cycle started, until the cycle assigns it
    calc                    \* the last call of a calculation of the thermostat and what it returned

coordVars == <<client, devices, data, result>>
ctlVars   == <<minimum_control_enabled, minimum_target, last_max_temp, last_r01>>
copVars   == <<cop_last_energy_meter, cop_energy_stored_at_meter_change, cop_current>>
cycVars   == <<pc, new_data, idx, pidx, pending>>
apiVars   == <<token, refresh_requested>>
worldVars == <<dev_r01, energy_meter>>
histVars  == <<writes, ext_pending, ext_seen, stale_r01, taken, data_at_start>>
vars == <<coordVars, ctlVars, copVars, cycVars, apiVars, worldVars, histVars, calc>>

----------------------------------------------------------------------------
(* Program constants *)

MIN_TEMP == 760
MAX_TEMP == 1500
Threshold == 2
TANK_VOLUME_LITERS == 300
SPECIFIC_HEAT_KWH == 1163

(* Bounds of the model *)

MaxDriverStep == 1

\* the reading of 70.4 degC up to which the driver drifts
DriftTop == 1408

----------------------------------------------------------------------------
(* Values: None, a non-numeric string, or a number *)

None == [k |-> "none"]
NonNum == [k |-> "str"]
Num(n) == [k |-> "num", v |-> n]
IsNum(x) == x.k = "num"

Abs(n) == IF n < 0 THEN 0 - n ELSE n
Max2(a, b) == IF a >= b THEN a ELSE b
Min2(a, b) == IF a <= b THEN a ELSE b

DeviceCodes == {"d1", "d2"}
ParamCodes == {"T02", "T03", "R01"}
Dev(c, s) == [deviceCode |-> c, deviceStatus |-> s]

\* the targets the presentation layer sets: 50 degC, and 90 degC which no
\* setpoint within the legal range reaches
Targets == { 1000, 1800 }

\* the setpoints other parties write
Setpoints == { 1200, 1300 }

\* Control: one device that answers every list and read; its top sensor T03
\* jitters by 0.1 degC or moves in steps of 0.3 degC from 70 degC, and any of
\* the three registers may be absent or not a number
Lists == { <<Dev("d1", "ONLINE")>> }
Controlled == { "d1" }

Readings(r01) ==
    { [T02 |-> Num(1300), T03 |-> Num(1400 + 6 * i), R01 |-> Num(r01)] :
            i \in 0..MaxDriverStep }
    \cup { [T02 |-> Num(1300), T03 |-> Num(1402), R01 |-> Num(r01)],
           [T02 |-> Num(1406), T03 |-> Num(1400), R01 |-> Num(r01)],
           [T02 |-> None, T03 |-> Num(1400), R01 |-> Num(r01)],
           [T02 |-> Num(1300), T03 |-> NonNum, R01 |-> Num(r01)],
           [T02 |-> Num(1300), T03 |-> Num(1400), R01 |-> None],
           [T02 |-> Num(1300), T03 |-> Num(1400), R01 |-> NonNum] }

NoData == [c \in {} |-> None]
NoPass == [dev |-> ""]
NoCall == [op |-> "none"]

----------------------------------------------------------------------------
(* Accessors *)

GetDeviceParam(d, code) ==
    IF d \in DOMAIN data THEN data[d]._params[code] ELSE None

GetDeviceInfo(d) ==
    IF d \in DOMAIN data THEN data[d]._device ELSE None

\* variant: a missing or non-numeric T02 falls back to T03 alone
GetMaxTempFallsBackToT03(d) ==
    LET t02 == GetDeviceParam(d, "T02")
        t03 == GetDeviceParam(d, "T03")
    IN  IF t03 = None THEN None
        ELSE IF ~IsNum(t03) THEN None
        ELSE IF t02 = None THEN t03
        ELSE IF ~IsNum(t02) THEN t03
        ELSE Num(Max2(t02.v, t03.v))

GetMaxTemp(d) ==
    LET t02 == GetDeviceParam(d, "T02")
        t03 == GetDeviceParam(d, "T03")
    IN  IF t02 = None \/ t03 = None THEN None
        ELSE IF ~IsNum(t02) \/ ~IsNum(t03) THEN None
        ELSE Num(Max2(t02.v, t03.v))

\* variant: the mean of target and driver is returned as it is, unclamped
CalculateR01WithoutClamp(d, min_target) ==
    LET max_temp == GetMaxTemp(d)
    IN  IF max_temp = None THEN None
        ELSE Num((min_target + max_temp.v) \div 2)

CalculateR01FromMinimumTarget(d, min_target) ==
    LET max_temp == GetMaxTemp(d)
    IN  IF max_temp = None THEN None
        ELSE Num(Max2(MIN_TEMP, Min2(MAX_TEMP, (min_target + max_temp.v) \div 2)))

CalculateMinimumTargetFromR01(d, r01) ==
    LET r == IF r01 = None THEN GetDeviceParam(d, "R01") ELSE r01
        max_temp == GetMaxTemp(d)
    IN  IF r = None \/ max_temp = None THEN None
        ELSE IF ~IsNum(r) THEN None
        ELSE Num(2 * r.v - max_temp.v)

IsMinimumControlEnabled(d) == minimum_control_enabled[d]

\* variant: the stored target is returned whether or not the control is enabled
GetMinimumTargetIgnoresEnabled(d) == minimum_target[d]

GetMinimumTarget(d) ==
    IF ~IsMinimumControlEnabled(d) THEN None ELSE minimum_target[d]

----------------------------------------------------------------------------
(* Double arithmetic.  A Python float x >= 1 is written Dbl(n, q): it is     *)
(* n * 0.05 + q * eps with eps = 2^-52 / 5, where n counts 0.05 as everywhere *)
(* and q is the rounding error.  In units of eps the decimal n * 0.05 is      *)
(* n * 2^50 and the spacing of the doubles of [2^e, 2^(e+1)) is 5 * 2^e, so   *)
(* rounding to the nearest double, ties to the even mantissa, takes only the  *)
(* residue of n * 2^50 + q modulo twice that spacing.                         *)

Dbl(n, q) == [k |-> "num", v |-> n, q |-> q]

\* 2^k modulo m
RECURSIVE PowMod2(_, _)
PowMod2(k, m) == IF k = 0 THEN 1 % m ELSE (2 * PowMod2(k - 1, m)) % m

RECURSIVE Pow2(_)
Pow2(k) == IF k = 0 THEN 1 ELSE 2 * Pow2(k - 1)

\* the largest e >= from with 20 * 2^e <= n, for n >= 20 * 2^from
RECURSIVE ExponentFrom(_, _)
ExponentFrom(n, from) ==
    IF 20 * Pow2(from + 1) <= n THEN ExponentFrom(n, from + 1) ELSE from

\* e with 2^e <= n * 0.05 + q * eps < 2^(e+1)
Binade(n, q) ==
    LET e == ExponentFrom(n, 0)
    IN  IF n = 20 * Pow2(e) /\ q < 0 THEN e - 1 ELSE e

\* the error of the double nearest to n * 0.05 + q * eps
RoundToDouble(n, q) ==
    LET spacing == 5 * Pow2(Binade(n, q))
        x2 == (n * PowMod2(50, 2 * spacing) + q) % (2 * spacing)
        r == x2 % spacing
    IN  IF r = 0 THEN q
        ELSE IF 2 * r < spacing THEN q - r
        ELSE IF 2 * r > spacing THEN q + spacing - r
        ELSE IF x2 < spacing THEN q - r
        ELSE q + spacing - r

\* float(x) of a register value or of a decimal literal
FloatOf(x) == Dbl(x.v, RoundToDouble(x.v, 0))

DblAdd(a, b) == Dbl(a.v + b.v, RoundToDouble(a.v + b.v, a.q + b.q))
DblSub(a, b) == Dbl(a.v - b.v, RoundToDouble(a.v - b.v, a.q - b.q))
DblLess(a, b) == a.v < b.v \/ (a.v = b.v /\ a.q < b.q)
\* halving and doubling are exact
DblHalf(a) == Dbl(a.v \div 2, a.q \div 2)
DblTwice(a) == Dbl(2 * a.v, 2 * a.q)
\* Python's max(a, b) and min(a, b): the first argument unless the second wins
DblMax(a, b) == IF DblLess(a, b) THEN b ELSE a
DblMin(a, b) == IF DblLess(b, a) THEN b ELSE a

GetMaxTempDbl(d) ==
    LET t02 == GetDeviceParam(d, "T02")
        t03 == GetDeviceParam(d, "T03")
    IN  IF t02 = None \/ t03 = None THEN None
        ELSE IF ~IsNum(t02) \/ ~IsNum(t03) THEN None
        ELSE DblMax(FloatOf(t02), FloatOf(t03))

\* variant: the sum is clamped to the legal range before it is halved
CalculateR01ClampsTheSum(d, min_target) ==
    LET max_temp == GetMaxTempDbl(d)
    IN  IF max_temp = None THEN None
        ELSE DblHalf(DblMax(Dbl(MIN_TEMP, 0),
                            DblMin(Dbl(MAX_TEMP, 0), DblAdd(min_target, max_temp))))

\* variant: an unreadable T02 falls back to T03 alone
CalculateR01FallsBackToT03(d, min_target) ==
    LET t03 == GetDeviceParam(d, "T03")
        max_temp == IF GetMaxTempDbl(d) # None THEN GetMaxTempDbl(d)
                    ELSE IF t03 # None /\ IsNum(t03) THEN FloatOf(t03)
                    ELSE None
    IN  IF max_temp = None THEN None
        ELSE DblMax(Dbl(MIN_TEMP, 0),
                    DblMin(Dbl(MAX_TEMP, 0), DblHalf(DblAdd(min_target, max_temp))))

\* calculate_r01_from_minimum_target with its rounding
CalculateR01FromMinimumTargetDbl(d, min_target) ==
    LET max_temp == GetMaxTempDbl(d)
    IN  IF max_temp = None THEN None
        ELSE DblMax(Dbl(MIN_TEMP, 0),
                    DblMin(Dbl(MAX_TEMP, 0), DblHalf(DblAdd(min_target, max_temp))))

\* variant: the relation is inverted with min(T02, T03)
CalculateMinimumTargetUsesMinTemp(d, r01) ==
    LET r == IF r01 = None THEN GetDeviceParam(d, "R01") ELSE r01
        t02 == GetDeviceParam(d, "T02")
        t03 == GetDeviceParam(d, "T03")
    IN  IF r = None \/ GetMaxTempDbl(d) = None THEN None
        ELSE IF ~IsNum(r) THEN None
        ELSE DblSub(DblTwice(IF r01 = None THEN FloatOf(r) ELSE r),
                    DblMin(FloatOf(t02), FloatOf(t03)))

\* calculate_minimum_target_from_r01 with its rounding; r01 is a double or None
CalculateMinimumTargetFromR01Dbl(d, r01) ==
    LET r == IF r01 = None THEN GetDeviceParam(d, "R01") ELSE r01
        max_temp == GetMaxTempDbl(d)
    IN  IF r = None \/ max_temp = None THEN None
        ELSE IF ~IsNum(r) THEN None
        ELSE DblSub(DblTwice(IF r01 = None THEN FloatOf(r) ELSE r), max_temp)

----------------------------------------------------------------------------
(* COP estimator: pure parts *)

GetEnergyStored(d) ==
    LET t02 == GetDeviceParam(d, "T02")
    IN  IF t02 = None \/ ~IsNum(t02) THEN None
        ELSE Num(TANK_VOLUME_LITERS * SPECIFIC_HEAT_KWH * t02.v)

GetEnergyMeter ==
    IF IsNum(energy_meter) THEN energy_meter ELSE None

\* round(n / m, 0) for m > 0, ties to the even neighbour as Python's round
RoundDiv(n, m) ==
    LET q == n \div m
        r == n - q * m
    IN  IF 2 * r < m THEN q
        ELSE IF 2 * r > m THEN q + 1
        ELSE IF q % 2 = 0 THEN q ELSE q + 1

\* variant: the quotient is cut off below instead of rounded
CopOfFloor(delta_stored, delta_meter) == delta_stored \div (200000 * delta_meter)

\* round(delta_stored / delta_meter, 2) in hundredths: the stored energy counts
\* 5e-8 kWh and the meter whole kWh, so 100 * ds * 5e-8 / dm = ds / (200000 * dm)
CopOf(delta_stored, delta_meter) == RoundDiv(delta_stored, 200000 * delta_meter)

\* variant: the COP is computed on every change of the meter, also a fall
UpdateCopOnAnyChange(d) ==
    LET current_energy_meter == GetEnergyMeter
        last_energy_meter == cop_last_energy_meter[d]
        current_energy_stored == GetEnergyStored(d)
        energy_stored_at_start == cop_energy_stored_at_meter_change[d]
    IN  IF current_energy_meter = None THEN UNCHANGED copVars
        ELSE IF last_energy_meter = None
        THEN /\ cop_last_energy_meter' =
                    [cop_last_energy_meter EXCEPT ![d] = current_energy_meter]
             /\ cop_energy_stored_at_meter_change' =
                    [cop_energy_stored_at_meter_change EXCEPT ![d] = current_energy_stored]
             /\ UNCHANGED cop_current
        ELSE IF current_energy_meter = last_energy_meter THEN UNCHANGED copVars
        ELSE /\ cop_current' =
                    IF /\ current_energy_stored # None
                       /\ energy_stored_at_start # None
                    THEN [cop_current EXCEPT ![d] =
                            Num(CopOf(current_energy_stored.v - energy_stored_at_start.v,
                                      Abs(current_energy_meter.v - last_energy_meter.v)))]
                    ELSE cop_current
             /\ cop_last_energy_meter' =
                    [cop_last_energy_meter EXCEPT ![d] = current_energy_meter]
             /\ cop_energy_stored_at_meter_change' =
                    [cop_energy_stored_at_meter_change EXCEPT ![d] = current_energy_stored]

\* variant: the first observation sets the COP to zero
UpdateCopFirstSampleZero(d) ==
    LET current_energy_meter == GetEnergyMeter
        last_energy_meter == cop_last_energy_meter[d]
        current_energy_stored == GetEnergyStored(d)
        energy_stored_at_start == cop_energy_stored_at_meter_change[d]
    IN  IF current_energy_meter = None THEN UNCHANGED copVars
        ELSE IF last_energy_meter = None
        THEN /\ cop_last_energy_meter' =
                    [cop_last_energy_meter EXCEPT ![d] = current_energy_meter]
             /\ cop_energy_stored_at_meter_change' =
                    [cop_energy_stored_at_meter_change EXCEPT ![d] = current_energy_stored]
             /\ cop_current' = [cop_current EXCEPT ![d] = Num(0)]
        ELSE IF current_energy_meter = last_energy_meter THEN UNCHANGED copVars
        ELSE /\ cop_current' =
                    IF /\ current_energy_stored # None
                       /\ energy_stored_at_start # None
                       /\ current_energy_meter.v - last_energy_meter.v > 0
                    THEN [cop_current EXCEPT ![d] =
                            Num(CopOf(current_energy_stored.v - energy_stored_at_start.v,
                                      current_energy_meter.v - last_energy_meter.v))]
                    ELSE cop_current
             /\ cop_last_energy_meter' =
                    [cop_last_energy_meter EXCEPT ![d] = current_energy_meter]
             /\ cop_energy_stored_at_meter_change' =
                    [cop_energy_stored_at_meter_change EXCEPT ![d] = current_energy_stored]

\* variant: the stored energy is refreshed in every cycle that has a meter reading
UpdateCopRefreshesStoredEnergy(d) ==
    LET current_energy_meter == GetEnergyMeter
        last_energy_meter == cop_last_energy_meter[d]
        current_energy_stored == GetEnergyStored(d)
        energy_stored_at_start == cop_energy_stored_at_meter_change[d]
    IN  IF current_energy_meter = None THEN UNCHANGED copVars
        ELSE IF last_energy_meter = None \/ current_energy_meter = last_energy_meter
        THEN /\ cop_last_energy_meter' =
                    [cop_last_energy_meter EXCEPT ![d] = current_energy_meter]
             /\ cop_energy_stored_at_meter_change' =
                    [cop_energy_stored_at_meter_change EXCEPT ![d] = current_energy_stored]
             /\ UNCHANGED cop_current
        ELSE /\ cop_current' =
                    IF /\ current_energy_stored # None
                       /\ energy_stored_at_start # None
                       /\ current_energy_meter.v - last_energy_meter.v > 0
                    THEN [cop_current EXCEPT ![d] =
                            Num(CopOf(current_energy_stored.v - energy_stored_at_start.v,
                                      current_energy_meter.v - last_energy_meter.v))]
                    ELSE cop_current
             /\ cop_last_energy_meter' =
                    [cop_last_energy_meter EXCEPT ![d] = current_energy_meter]
             /\ cop_energy_stored_at_meter_change' =
                    [cop_energy_stored_at_meter_change EXCEPT ![d] = current_energy_stored]

\* variant: a changed meter without a valid sample clears the COP
UpdateCopClearsOnInvalidSample(d) ==
    LET current_energy_meter == GetEnergyMeter
        last_energy_meter == cop_last_energy_meter[d]
        current_energy_stored == GetEnergyStored(d)
        energy_stored_at_start == cop_energy_stored_at_meter_change[d]
    IN  IF current_energy_meter = None THEN UNCHANGED copVars
        ELSE IF last_energy_meter = None
        THEN /\ cop_last_energy_meter' =
                    [cop_last_energy_meter EXCEPT ![d] = current_energy_meter]
             /\ cop_energy_stored_at_meter_change' =
                    [cop_energy_stored_at_meter_change EXCEPT ![d] = current_energy_stored]
             /\ UNCHANGED cop_current
        ELSE IF current_energy_meter = last_energy_meter THEN UNCHANGED copVars
        ELSE /\ cop_current' =
                    IF /\ current_energy_stored # None
                       /\ energy_stored_at_start # None
                       /\ current_energy_meter.v - last_energy_meter.v > 0
                    THEN [cop_current EXCEPT ![d] =
                            Num(CopOf(current_energy_stored.v - energy_stored_at_start.v,
                                      current_energy_meter.v - last_energy_meter.v))]
                    ELSE [cop_current EXCEPT ![d] = None]
             /\ cop_last_energy_meter' =
                    [cop_last_energy_meter EXCEPT ![d] = current_energy_meter]
             /\ cop_energy_stored_at_meter_change' =
                    [cop_energy_stored_at_meter_change EXCEPT ![d] = current_energy_stored]

UpdateCop(d) ==
    LET current_energy_meter == GetEnergyMeter
        last_energy_meter == cop_last_energy_meter[d]
        current_energy_stored == GetEnergyStored(d)
        energy_stored_at_start == cop_energy_stored_at_meter_change[d]
    IN  IF current_energy_meter = None THEN UNCHANGED copVars
        ELSE IF last_energy_meter = None
        THEN /\ cop_last_energy_meter' =
                    [cop_last_energy_meter EXCEPT ![d] = current_energy_meter]
             /\ cop_energy_stored_at_meter_change' =
                    [cop_energy_stored_at_meter_change EXCEPT ![d] = current_energy_stored]
             /\ UNCHANGED cop_current
        ELSE IF current_energy_meter = last_energy_meter THEN UNCHANGED copVars
        ELSE /\ cop_current' =
                    IF /\ current_energy_stored # None
                       /\ energy_stored_at_start # None
                       /\ current_energy_meter.v - last_energy_meter.v > 0
                    THEN [cop_current EXCEPT ![d] =
                            Num(CopOf(current_energy_stored.v - energy_stored_at_start.v,
                                      current_energy_meter.v - last_energy_meter.v))]
                    ELSE cop_current
             /\ cop_last_energy_meter' =
                    [cop_last_energy_meter EXCEPT ![d] = current_energy_meter]
             /\ cop_energy_stored_at_meter_change' =
                    [cop_energy_stored_at_meter_change EXCEPT ![d] = current_energy_stored]

GetCop(d) == cop_current[d]

----------------------------------------------------------------------------
(* Transport client (api.py): every request logs in first when no token is  *)
(* held; lg is the server's answer to that login, r its answer to the       *)
(* request itself.                                                          *)

LoginResponses == {"ok", "fail", "client_error"}
\* the login answers that matter: none is asked for while a token is held
LoginChoices == IF token THEN {"ok"} ELSE LoginResponses
Responses == {"ok", "auth", "error", "client_error"}

\* variant: the request is sent whatever the login answered
ApiOutcomeSendsWithoutLogin(lg, r) ==
    IF r = "ok" THEN "ok"
    ELSE IF r = "auth" THEN "auth"
    ELSE "conn"

\* what get_devices / read_params return or raise
ApiOutcome(lg, r) ==
    IF ~token /\ lg = "fail" THEN "auth"
    ELSE IF ~token /\ lg = "client_error" THEN "conn"
    ELSE IF r = "ok" THEN "ok"
    ELSE IF r = "auth" THEN "auth"
    ELSE "conn"

\* what write_param returns or raises: a refused write returns False
WriteOutcome(lg, r) ==
    IF ~token /\ lg = "fail" THEN "auth"
    ELSE IF ~token /\ lg = "client_error" THEN "conn"
    ELSE IF r = "ok" THEN "ok"
    ELSE IF r = "auth" THEN "auth"
    ELSE IF r = "error" THEN "false"
    ELSE "conn"

\* self._token after the request
ApiToken(lg, r) ==
    IF ~token /\ lg # "ok" THEN FALSE
    ELSE r # "auth"

----------------------------------------------------------------------------
Init ==
    /\ client = FALSE
    /\ token = FALSE
    /\ devices = <<>>
    /\ data = NoData
    /\ result = "none"
    /\ refresh_requested = FALSE
    /\ minimum_control_enabled = [d \in DeviceCodes |-> FALSE]
    /\ minimum_target = [d \in DeviceCodes |-> None]
    /\ last_max_temp = [d \in DeviceCodes |-> None]
    /\ last_r01 = [d \in DeviceCodes |-> None]
    /\ cop_last_energy_meter = [d \in DeviceCodes |-> None]
    /\ cop_energy_stored_at_meter_change = [d \in DeviceCodes |-> None]
    /\ cop_current = [d \in DeviceCodes |-> None]
    /\ pc = "idle"
    /\ new_data = NoData
    /\ idx = 0
    /\ pidx = 0
    /\ pending = None
    /\ dev_r01 \in [DeviceCodes -> {1200}]
    /\ energy_meter = None
    /\ writes = <<>>
    /\ ext_pending = [d \in DeviceCodes |-> FALSE]
    /\ ext_seen = [d \in DeviceCodes |-> FALSE]
    /\ stale_r01 = [d \in DeviceCodes |-> FALSE]
    /\ taken = NoPass
    /\ data_at_start = NoData
    /\ calc = NoCall

\* the cycle is idle or suspended at a network call
Suspended == pc \in {"idle", "list", "read", "write"}

----------------------------------------------------------------------------
(* Entities of the presentation layer: the available property *)

\* coordinator.last_update_success as the entities read it
LastUpdateSuccess == result \notin {"update_failed", "auth_failed"}

\* variant: the entity does not look at the deviceStatus
AvailableIgnoresStatus(d) ==
    /\ LastUpdateSuccess
    /\ GetDeviceInfo(d) # None

\* sensors, binary sensors, numbers and the main climate entity
Available(d) ==
    IF ~LastUpdateSuccess THEN FALSE
    ELSE IF GetDeviceInfo(d) # None
    THEN GetDeviceInfo(d).deviceStatus = "ONLINE"
    ELSE FALSE

\* the bottom climate entity also requires T03
BottomAvailable(d) ==
    IF ~LastUpdateSuccess THEN FALSE
    ELSE IF GetDeviceInfo(d) = None THEN FALSE
    ELSE IF GetDeviceInfo(d).deviceStatus # "ONLINE" THEN FALSE
    ELSE GetDeviceParam(d, "T03") # None

----------------------------------------------------------------------------
(* Setup and the poll cycle: _async_setup, _async_update_data *)

ResetLocals ==
    /\ new_data' = NoData
    /\ idx' = 0
    /\ pidx' = 0
    /\ pending' = None

\* variant: every error is surfaced as the retryable failure
RaiseAlwaysRetryable(kind) ==
    result' = "update_failed"

\* the raise of the except clauses: the framework records the outcome
Raise(kind) ==
    result' = IF kind = "auth" THEN "auth_failed" ELSE "update_failed"

\* the smallest index >= i of a device with a deviceCode, else Len(devs) + 1
RECURSIVE NextIdx(_, _)
NextIdx(devs, i) ==
    IF i > Len(devs) THEN i
    ELSE IF devs[i].deviceCode # "" THEN i
    ELSE NextIdx(devs, i + 1)

\* the keys of the dictionary built from devs, in insertion order
RECURSIVE CodesOf(_)
CodesOf(devs) ==
    IF devs = <<>> THEN <<>>
    ELSE IF Head(devs).deviceCode = "" THEN CodesOf(Tail(devs))
    ELSE <<Head(devs).deviceCode>> \o CodesOf(Tail(devs))

Order == CodesOf(devices)

\* variant: setup completes once the login succeeded, whatever the listing did
AsyncSetupNeedsLoginOnly(lg, r, list) ==
    /\ pc = "idle"
    /\ ~client
    /\ client' = TRUE
    /\ IF lg # "ok"
       THEN /\ Raise(IF lg = "fail" THEN "auth" ELSE "conn")
            /\ UNCHANGED <<token, devices>>
       ELSE /\ token' = (r # "auth")
            /\ devices' = IF r = "ok" THEN list ELSE devices
            /\ UNCHANGED result
    /\ UNCHANGED <<data, refresh_requested, ctlVars, copVars, cycVars, worldVars,
                   writes, ext_pending, ext_seen, stale_r01, taken, data_at_start>>
    /\ UNCHANGED calc

\* login then get_devices, at construction of the client
AsyncSetup(lg, r, list) ==
    /\ pc = "idle"
    /\ ~client
    /\ client' = TRUE
    /\ IF lg # "ok"
       THEN /\ Raise(IF lg = "fail" THEN "auth" ELSE "conn")
            /\ UNCHANGED <<token, devices>>
       ELSE IF r # "ok"
       THEN /\ Raise(IF r = "auth" THEN "auth" ELSE "conn")
            /\ token' = (r # "auth")
            /\ UNCHANGED devices
       ELSE /\ token' = TRUE
            /\ devices' = list
            /\ UNCHANGED result
    /\ UNCHANGED <<data, refresh_requested, ctlVars, copVars, cycVars, worldVars,
                   writes, ext_pending, ext_seen, stale_r01, taken, data_at_start>>
    /\ UNCHANGED calc

\* a cycle starts: without a client it fails at once
StartCycle ==
    /\ pc = "idle"
    /\ IF ~client
       THEN /\ Raise("conn")
            /\ UNCHANGED pc
       ELSE /\ pc' = "list"
            /\ UNCHANGED result
    /\ refresh_requested' = FALSE
    /\ new_data' = NoData
    /\ idx' = 0
    /\ data_at_start' = data
    /\ UNCHANGED <<client, token, devices, data, ctlVars, copVars, pidx, pending,
                   worldVars, writes, ext_pending, ext_seen, stale_r01, taken>>
    /\ UNCHANGED calc

\* the cycle ends with an exception: self.data is not assigned
AbortCycle(kind) ==
    /\ Raise(kind)
    /\ pc' = "idle"
    /\ UNCHANGED <<data, new_data, idx, pidx, pending, data_at_start>>

\* variant: the new snapshot is merged into the previous one
StoreParamsMerging(i, params) ==
    LET d == devices[i].deviceCode
        built == [c \in DOMAIN new_data \cup {d} |->
                    IF c = d THEN [_device |-> devices[i], _params |-> params]
                    ELSE new_data[c]]
        next == NextIdx(devices, i + 1)
    IN  IF next > Len(devices)
        THEN /\ data' = [c \in DOMAIN data \cup DOMAIN built |->
                            IF c \in DOMAIN built THEN built[c] ELSE data[c]]
             /\ pc' = "pass"
             /\ new_data' = NoData
             /\ idx' = 0
             /\ pidx' = 1
             /\ data_at_start' = NoData
        ELSE /\ new_data' = built
             /\ idx' = next
             /\ UNCHANGED <<data, pc, pidx, data_at_start>>

\* variant: the registers of each device are stored into self.data as they arrive
StoreParamsInPlace(i, params) ==
    LET d == devices[i].deviceCode
        entry == [_device |-> devices[i], _params |-> params]
        built == [c \in DOMAIN new_data \cup {d} |->
                    IF c = d THEN entry ELSE new_data[c]]
        next == NextIdx(devices, i + 1)
    IN  IF next > Len(devices)
        THEN /\ data' = built
             /\ pc' = "pass"
             /\ new_data' = NoData
             /\ idx' = 0
             /\ pidx' = 1
             /\ data_at_start' = NoData
        ELSE /\ data' = [c \in DOMAIN data \cup {d} |->
                            IF c = d THEN entry ELSE data[c]]
             /\ new_data' = built
             /\ idx' = next
             /\ UNCHANGED <<pc, pidx, data_at_start>>

\* the loop body once the registers of device i were read, and the assignment
\* of self.data after the last device
StoreParams(i, params) ==
    LET d == devices[i].deviceCode
        built == [c \in DOMAIN new_data \cup {d} |->
                    IF c = d THEN [_device |-> devices[i], _params |-> params]
                    ELSE new_data[c]]
        next == NextIdx(devices, i + 1)
    IN  IF next > Len(devices)
        THEN /\ data' = built
             /\ pc' = "pass"
             /\ new_data' = NoData
             /\ idx' = 0
             /\ pidx' = 1
             /\ data_at_start' = NoData
        ELSE /\ new_data' = built
             /\ idx' = next
             /\ UNCHANGED <<data, pc, pidx, data_at_start>>

ListDevices(lg, r, list) ==
    /\ pc = "list"
    /\ token' = ApiToken(lg, r)
    /\ IF ApiOutcome(lg, r) = "ok"
       THEN /\ devices' = list
            /\ UNCHANGED result
            /\ IF NextIdx(list, 1) > Len(list)
               THEN /\ data' = NoData
                    /\ pc' = "pass"
                    /\ pidx' = 1
                    /\ data_at_start' = NoData
                    /\ UNCHANGED <<new_data, idx>>
               ELSE /\ pc' = "read"
                    /\ idx' = NextIdx(list, 1)
                    /\ new_data' = NoData
                    /\ UNCHANGED <<data, pidx, data_at_start>>
            /\ UNCHANGED pending
       ELSE /\ AbortCycle(ApiOutcome(lg, r))
            /\ UNCHANGED devices
    /\ UNCHANGED <<client, refresh_requested, ctlVars, copVars, worldVars,
                   writes, ext_pending, ext_seen, stale_r01, taken>>
    /\ UNCHANGED calc

ReadParams(lg, r, params) ==
    /\ pc = "read"
    /\ token' = ApiToken(lg, r)
    /\ LET d == devices[idx].deviceCode
       IN  IF ApiOutcome(lg, r) = "ok"
           THEN /\ StoreParams(idx, params)
                /\ ext_seen' = [ext_seen EXCEPT ![d] = ext_seen[d] \/ ext_pending[d]]
                /\ ext_pending' = [ext_pending EXCEPT ![d] = FALSE]
                /\ UNCHANGED <<result, pending>>
           ELSE /\ AbortCycle(ApiOutcome(lg, r))
                /\ UNCHANGED <<ext_seen, ext_pending>>
    /\ UNCHANGED <<client, devices, refresh_requested, ctlVars, copVars, worldVars,
                   writes, stale_r01, taken>>
    /\ UNCHANGED calc

----------------------------------------------------------------------------
(* Write gateway: async_write_param *)

\* variant: the refresh is requested whatever the transport returned
AsyncWriteParamAlwaysRefreshes(d, v, lg, r) ==
    IF ~client
    THEN UNCHANGED <<token, dev_r01, refresh_requested>>
    ELSE /\ token' = ApiToken(lg, r)
         /\ refresh_requested' = TRUE
         /\ IF WriteOutcome(lg, r) = "ok"
            THEN dev_r01' = [dev_r01 EXCEPT ![d] = v]
            ELSE UNCHANGED dev_r01

AsyncWriteParam(d, v, lg, r) ==
    IF ~client
    THEN UNCHANGED <<token, dev_r01, refresh_requested>>
    ELSE /\ token' = ApiToken(lg, r)
         /\ IF WriteOutcome(lg, r) = "ok"
            THEN /\ dev_r01' = [dev_r01 EXCEPT ![d] = v]
                 /\ refresh_requested' = TRUE
            ELSE UNCHANGED <<dev_r01, refresh_requested>>

\* the value async_write_param returns
WriteSucceeds(lg, r) == client /\ WriteOutcome(lg, r) = "ok"

----------------------------------------------------------------------------
(* Minimum thermostat active control *)

\* variant: enable also takes the setpoint of the snapshot as baseline
EnableMinimumControlCapturesSetpoint(d, min_target) ==
    /\ Suspended
    /\ minimum_control_enabled' = [minimum_control_enabled EXCEPT ![d] = TRUE]
    /\ minimum_target' = [minimum_target EXCEPT ![d] = Num(min_target)]
    /\ last_max_temp' = [last_max_temp EXCEPT ![d] = GetMaxTemp(d)]
    /\ last_r01' = [last_r01 EXCEPT ![d] =
                        IF GetDeviceParam(d, "R01") # None /\ IsNum(GetDeviceParam(d, "R01"))
                        THEN GetDeviceParam(d, "R01") ELSE None]
    /\ stale_r01' = [stale_r01 EXCEPT ![d] = FALSE]
    /\ UNCHANGED <<coordVars, copVars, cycVars, apiVars, worldVars,
                   writes, ext_pending, ext_seen, taken, data_at_start>>
    /\ UNCHANGED calc

EnableMinimumControl(d, min_target) ==
    /\ Suspended
    /\ minimum_control_enabled' = [minimum_control_enabled EXCEPT ![d] = TRUE]
    /\ minimum_target' = [minimum_target EXCEPT ![d] = Num(min_target)]
    /\ last_max_temp' = [last_max_temp EXCEPT ![d] = GetMaxTemp(d)]
    /\ UNCHANGED last_r01
    /\ stale_r01' = [stale_r01 EXCEPT ![d] =
                        IF minimum_control_enabled[d] THEN stale_r01[d]
                        ELSE last_r01[d] # None]
    /\ UNCHANGED <<coordVars, copVars, cycVars, apiVars, worldVars,
                   writes, ext_pending, ext_seen, taken, data_at_start>>
    /\ UNCHANGED calc

DisableMinimumControl(d) ==
    /\ Suspended
    /\ minimum_control_enabled' = [minimum_control_enabled EXCEPT ![d] = FALSE]
    /\ UNCHANGED <<minimum_target, last_max_temp, last_r01>>
    /\ UNCHANGED <<coordVars, copVars, cycVars, apiVars, worldVars,
                   writes, ext_pending, ext_seen, stale_r01, taken, data_at_start>>
    /\ UNCHANGED calc

\* the control state of device d
CtlOf(d) ==
    [enabled |-> minimum_control_enabled[d], target |-> minimum_target[d],
     last_max |-> last_max_temp[d], last_r01 |-> last_r01[d]]

\* both values the pass needs are present and numeric
Readable(d) ==
    /\ GetMaxTemp(d) # None
    /\ GetDeviceParam(d, "R01") # None
    /\ IsNum(GetDeviceParam(d, "R01"))

\* R01 differs from its baseline: taken as changed by another party
OverrideDetected(d, current_r01) ==
    /\ last_r01[d] # None
    /\ Abs(current_r01.v - last_r01[d].v) > Threshold

\* variant: any move of the driver counts, without the deadband
AdjustmentDueOnAnyMove(d, current_max_temp, current_r01) ==
    /\ last_max_temp[d] # None
    /\ current_max_temp.v # last_max_temp[d].v
    /\ minimum_target[d] # None
    /\ CalculateR01FromMinimumTarget(d, minimum_target[d].v) # None
    /\ Abs(CalculateR01FromMinimumTarget(d, minimum_target[d].v).v - current_r01.v)
          > Threshold

\* the driver moved and the setpoint for the stored target is off
AdjustmentDue(d, current_max_temp, current_r01) ==
    /\ last_max_temp[d] # None
    /\ Abs(current_max_temp.v - last_max_temp[d].v) > Threshold
    /\ minimum_target[d] # None
    /\ CalculateR01FromMinimumTarget(d, minimum_target[d].v) # None
    /\ Abs(CalculateR01FromMinimumTarget(d, minimum_target[d].v).v - current_r01.v)
          > Threshold

\* which way _update_minimum_control goes for device d
Branch(d) ==
    IF ~IsMinimumControlEnabled(d) THEN "disabled"
    ELSE IF ~Readable(d) THEN "unreadable"
    ELSE IF OverrideDetected(d, GetDeviceParam(d, "R01")) THEN "override"
    ELSE IF AdjustmentDue(d, GetMaxTemp(d), GetDeviceParam(d, "R01")) THEN "write"
    ELSE "steady"

\* variant: a pass that returns early still takes the driver it reads as baseline
NoOpBranchRefreshesDriverBaseline(d) ==
    /\ last_max_temp' = [last_max_temp EXCEPT ![d] = GetMaxTemp(d)]
    /\ UNCHANGED <<minimum_control_enabled, minimum_target, last_r01>>

\* the early returns: nothing changes
NoOpBranch(d) == UNCHANGED ctlVars

\* variant: the override disables the control without refreshing the driver baseline
OverrideBranchKeepsDriverBaseline(d, current_max_temp, current_r01) ==
    /\ minimum_control_enabled' = [minimum_control_enabled EXCEPT ![d] = FALSE]
    /\ last_r01' = [last_r01 EXCEPT ![d] = current_r01]
    /\ UNCHANGED <<minimum_target, last_max_temp>>

\* variant: an override on one device disables the control of every device
OverrideBranchDisablesEveryDevice(d, current_max_temp, current_r01) ==
    /\ minimum_control_enabled' = [x \in DeviceCodes |-> FALSE]
    /\ last_max_temp' = [last_max_temp EXCEPT ![d] = current_max_temp]
    /\ last_r01' = [last_r01 EXCEPT ![d] = current_r01]
    /\ UNCHANGED minimum_target

OverrideBranch(d, current_max_temp, current_r01) ==
    /\ minimum_control_enabled' = [minimum_control_enabled EXCEPT ![d] = FALSE]
    /\ last_max_temp' = [last_max_temp EXCEPT ![d] = current_max_temp]
    /\ last_r01' = [last_r01 EXCEPT ![d] = current_r01]
    /\ UNCHANGED minimum_target

SteadyBranch(d, current_max_temp, current_r01) ==
    /\ last_max_temp' = [last_max_temp EXCEPT ![d] = current_max_temp]
    /\ last_r01' = [last_r01 EXCEPT ![d] = current_r01]
    /\ UNCHANGED <<minimum_control_enabled, minimum_target>>

\* variant: the write branch also takes the current driver as baseline
AfterWriteTakesDriverBaseline(d, new_r01, success) ==
    /\ last_r01' = [last_r01 EXCEPT ![d] = new_r01]
    /\ last_max_temp' = [last_max_temp EXCEPT ![d] = GetMaxTemp(d)]
    /\ UNCHANGED <<minimum_control_enabled, minimum_target>>

\* variant: the write branch leaves the setpoint baseline as it was
AfterWriteKeepsSetpointBaseline(d, new_r01, success) ==
    UNCHANGED <<minimum_control_enabled, minimum_target, last_max_temp, last_r01>>

\* after the awaited write, whatever it returned
AfterWrite(d, new_r01, success) ==
    /\ last_r01' = [last_r01 EXCEPT ![d] = new_r01]
    /\ UNCHANGED <<minimum_control_enabled, minimum_target, last_max_temp>>

\* one pass of the loop over the devices of self.data, up to its write if any
UpdateMinimumControl ==
    /\ pc = "pass"
    /\ pidx <= Len(Order)
    /\ LET d == Order[pidx]
           b == Branch(d)
       IN  IF b = "write"
           THEN /\ pc' = "write"
                /\ pending' = CalculateR01FromMinimumTarget(d, minimum_target[d].v)
                /\ UNCHANGED <<ctlVars, copVars, pidx, ext_seen, stale_r01>>
           ELSE /\ IF b = "override"
                   THEN OverrideBranch(d, GetMaxTemp(d), GetDeviceParam(d, "R01"))
                   ELSE IF b = "steady"
                   THEN SteadyBranch(d, GetMaxTemp(d), GetDeviceParam(d, "R01"))
                   ELSE NoOpBranch(d)
                /\ UpdateCop(d)
                /\ pidx' = pidx + 1
                /\ ext_seen' = IF b \in {"override", "steady"}
                               THEN [ext_seen EXCEPT ![d] = FALSE] ELSE ext_seen
                /\ stale_r01' = IF b \in {"override", "steady"}
                                THEN [stale_r01 EXCEPT ![d] = FALSE] ELSE stale_r01
                /\ UNCHANGED <<pc, pending>>
    /\ taken' = [dev |-> Order[pidx], before |-> CtlOf(Order[pidx]),
                  nwrites |-> Len(writes)]
    /\ UNCHANGED <<coordVars, new_data, idx, apiVars, worldVars, writes, ext_pending,
                   data_at_start>>
    /\ UNCHANGED calc

\* variant: a pass that wrote returns from the loop body without the COP pass
WriteDoneSkipsCop(lg, r) ==
    /\ pc = "write"
    /\ LET d == Order[pidx]
       IN  /\ AsyncWriteParam(d, pending.v, lg, r)
           /\ AfterWrite(d, pending, WriteSucceeds(lg, r))
           /\ UNCHANGED copVars
           /\ writes' = Append(writes, [dev |-> d, code |-> "R01", value |-> pending.v,
                                        ok |-> WriteSucceeds(lg, r)])
           /\ ext_seen' = [ext_seen EXCEPT ![d] = FALSE]
           /\ stale_r01' = [stale_r01 EXCEPT ![d] = FALSE]
    /\ pc' = "pass"
    /\ pidx' = pidx + 1
    /\ pending' = None
    /\ UNCHANGED <<coordVars, new_data, idx, energy_meter, ext_pending, taken,
                   data_at_start>>
    /\ UNCHANGED calc

\* the write of the pass returns
WriteDone(lg, r) ==
    /\ pc = "write"
    /\ LET d == Order[pidx]
       IN  /\ AsyncWriteParam(d, pending.v, lg, r)
           /\ AfterWrite(d, pending, WriteSucceeds(lg, r))
           /\ UpdateCop(d)
           /\ writes' = Append(writes, [dev |-> d, code |-> "R01", value |-> pending.v,
                                        ok |-> WriteSucceeds(lg, r)])
           /\ ext_seen' = [ext_seen EXCEPT ![d] = FALSE]
           /\ stale_r01' = [stale_r01 EXCEPT ![d] = FALSE]
    /\ pc' = "pass"
    /\ pidx' = pidx + 1
    /\ pending' = None
    /\ UNCHANGED <<coordVars, new_data, idx, energy_meter, ext_pending, taken,
                   data_at_start>>
    /\ UNCHANGED calc

\* return data: the cycle succeeded
EndCycle ==
    /\ pc = "pass"
    /\ pidx > Len(Order)
    /\ pc' = "idle"
    /\ result' = "ok"
    /\ ResetLocals
    /\ writes' = <<>>
    /\ taken' = NoPass
    /\ UNCHANGED <<client, devices, data, ctlVars, copVars, apiVars, worldVars,
                   ext_pending, ext_seen, stale_r01, data_at_start>>
    /\ UNCHANGED calc

----------------------------------------------------------------------------
(* The other parties *)

\* the presentation layer writes R01 through the gateway
UserWrite(d, v, lg, r) ==
    /\ Suspended
    /\ AsyncWriteParam(d, v, lg, r)
    /\ ext_pending' = IF WriteSucceeds(lg, r)
                      THEN [ext_pending EXCEPT ![d] = TRUE] ELSE ext_pending
    /\ UNCHANGED <<coordVars, ctlVars, copVars, cycVars, energy_meter,
                   writes, ext_seen, stale_r01, taken, data_at_start>>
    /\ UNCHANGED calc

\* R01 is changed at the device itself
ExternalWrite(d, v) ==
    /\ Suspended
    /\ v # dev_r01[d]
    /\ dev_r01' = [dev_r01 EXCEPT ![d] = v]
    /\ ext_pending' = [ext_pending EXCEPT ![d] = TRUE]
    /\ UNCHANGED <<coordVars, ctlVars, copVars, cycVars, apiVars, energy_meter,
                   writes, ext_seen, stale_r01, taken, data_at_start>>
    /\ UNCHANGED calc

\* the energy meter entity changes state
MeterChange(m) ==
    /\ Suspended
    /\ m # energy_meter
    /\ energy_meter' = m
    /\ UNCHANGED <<coordVars, ctlVars, copVars, cycVars, apiVars, dev_r01,
                   writes, ext_pending, ext_seen, stale_r01, taken, data_at_start>>
    /\ UNCHANGED calc

----------------------------------------------------------------------------
(* Calls of the two calculations of the thermostat *)

\* a caller asks for the setpoint of a target (a decimal, taken as a float)
CalculateR01Call(d, min_target) ==
    /\ Suspended
    /\ calc' = [op |-> "r01", dev |-> d, target |-> FloatOf(Num(min_target)),
                max_temp |-> GetMaxTempDbl(d), given |-> None, max_temp_given |-> None,
                ret |-> CalculateR01FromMinimumTargetDbl(d, FloatOf(Num(min_target)))]
    /\ UNCHANGED <<coordVars, ctlVars, copVars, cycVars, apiVars, worldVars, histVars>>

\* a caller asks for the target the setpoint just calculated implies, or,
\* passing no setpoint, for the one the current R01 implies; target and
\* max_temp_given recall the call that calculated the setpoint
CalculateMinimumTargetCall(d, passes) ==
    /\ Suspended
    /\ passes => (calc.op = "r01" /\ calc.dev = d /\ calc.ret # None)
    /\ LET r01 == IF passes THEN calc.ret ELSE None
       IN  calc' = [op |-> "target", dev |-> d,
                    target |-> IF passes THEN calc.target ELSE None,
                    max_temp |-> GetMaxTempDbl(d),
                    given |-> r01,
                    max_temp_given |-> IF passes THEN calc.max_temp ELSE None,
                    ret |-> CalculateMinimumTargetFromR01Dbl(d, r01)]
    /\ UNCHANGED <<coordVars, ctlVars, copVars, cycVars, apiVars, worldVars, histVars>>

----------------------------------------------------------------------------
(* The bottom climate entity (climate.py).  It drives its thermostat through *)
(* methods of the coordinator named *_bottom_*.                              *)

\* the methods HiTempCoordinator defines for the entities
CoordinatorMethods ==
    { "async_write_param", "get_device_param", "get_device_info",
      "calculate_r01_from_minimum_target", "calculate_minimum_target_from_r01",
      "enable_minimum_control", "disable_minimum_control",
      "is_minimum_control_enabled", "get_minimum_target",
      "is_compressor_running", "get_cop" }

\* the control kinds the coordinator implements: those it has an enable method for
ControlKinds ==
    { kind \in {"bottom", "minimum"} :
            ("enable_" \o kind \o "_control") \in CoordinatorMethods }

\* looking up a method the coordinator does not define raises
AttributeError == [k |-> "AttributeError"]
Lookup(method) == IF method \in CoordinatorMethods THEN "found" ELSE "AttributeError"

\* async_set_temperature: the first call on the coordinator is
\* calculate_r01_from_bottom_target
BottomSetTemperature(d, bottom_target) ==
    /\ Suspended
    /\ Lookup("calculate_r01_from_bottom_target") = "AttributeError"
    /\ calc' = [op |-> "bottom_set_temperature", dev |-> d,
                target |-> FloatOf(Num(bottom_target)), ret |-> AttributeError]
    /\ UNCHANGED <<coordVars, ctlVars, copVars, cycVars, apiVars, worldVars, histVars>>

\* async_turn_off: disable_bottom_control comes before the write of the power
BottomTurnOff(d) ==
    /\ Suspended
    /\ Lookup("disable_bottom_control") = "AttributeError"
    /\ calc' = [op |-> "bottom_turn_off", dev |-> d, ret |-> AttributeError]
    /\ UNCHANGED <<coordVars, ctlVars, copVars, cycVars, apiVars, worldVars, histVars>>

\* the properties target_temperature and extra_state_attributes: get_bottom_target
\* and is_bottom_control_enabled
BottomState(d, prop) ==
    /\ Suspended
    /\ Lookup(IF prop = "target_temperature" THEN "get_bottom_target"
              ELSE "is_bottom_control_enabled") = "AttributeError"
    /\ calc' = [op |-> "bottom_" \o prop, dev |-> d, ret |-> AttributeError]
    /\ UNCHANGED <<coordVars, ctlVars, copVars, cycVars, apiVars, worldVars, histVars>>

----------------------------------------------------------------------------
Next ==
    \/ AsyncSetup("ok", "ok", <<Dev("d1", "ONLINE")>>)
    \/ StartCycle
    \/ \E list \in Lists : ListDevices("ok", "ok", list)
    \/ /\ pc = "read"
       /\ \E params \in Readings(dev_r01[devices[idx].deviceCode]) :
                    ReadParams("ok", "ok", params)
    \/ UpdateMinimumControl
    \/ \E r \in Responses : WriteDone("ok", r)
    \/ EndCycle
    \/ \E d \in Controlled, t \in Targets : EnableMinimumControl(d, t)
    \/ \E d \in Controlled : DisableMinimumControl(d)
    \/ \E d \in Controlled, v \in Setpoints, r \in Responses : UserWrite(d, v, "ok", r)
    \/ \E d \in Controlled, v \in Setpoints : ExternalWrite(d, v)

Spec == Init /\ [][Next]_vars

\* the poll cycle with its failures: two devices, one of them at times without
\* a deviceCode, every response of the cloud, the control of d1 at one target
PollLists ==
    { <<Dev("d1", "ONLINE")>>,
      <<Dev("d1", "ONLINE"), Dev("d2", "ONLINE")>>,
      <<Dev("", "ONLINE"), Dev("d2", "OFFLINE")>> }

PollReadings(r01) ==
    { [T02 |-> Num(1300), T03 |-> Num(t03), R01 |-> Num(r01)] : t03 \in {1400, 1406} }

NextPoll ==
    \/ \E lg \in LoginResponses, r \in Responses, list \in PollLists :
            AsyncSetup(lg, r, list)
    \/ StartCycle
    \/ \E lg \in LoginChoices, r \in Responses, list \in PollLists :
            ListDevices(lg, r, list)
    \/ /\ pc = "read"
       /\ \E lg \in LoginChoices, r \in Responses,
             params \in PollReadings(dev_r01[devices[idx].deviceCode]) :
                    ReadParams(lg, r, params)
    \/ UpdateMinimumControl
    \/ \E lg \in LoginChoices, r \in Responses : WriteDone(lg, r)
    \/ EndCycle
    \/ EnableMinimumControl("d1", 1000)
    \/ DisableMinimumControl("d1")

SpecPoll == Init /\ [][NextPoll]_vars

\* the write gateway: one device, every response of the cloud, the control of
\* d1 and the presentation layer writing R01 of d1
NextGateway ==
    \/ \E lg \in LoginResponses, r \in Responses :
            AsyncSetup(lg, r, <<Dev("d1", "ONLINE")>>)
    \/ StartCycle
    \/ \E lg \in LoginChoices, r \in Responses :
            ListDevices(lg, r, <<Dev("d1", "ONLINE")>>)
    \/ /\ pc = "read"
       /\ \E lg \in LoginChoices, r \in Responses,
             params \in PollReadings(dev_r01[devices[idx].deviceCode]) :
                    ReadParams(lg, r, params)
    \/ UpdateMinimumControl
    \/ \E lg \in LoginChoices, r \in Responses : WriteDone(lg, r)
    \/ EndCycle
    \/ EnableMinimumControl("d1", 1000)
    \/ \E lg \in LoginChoices, r \in Responses : UserWrite("d1", 1300, lg, r)

SpecGateway == Init /\ [][NextGateway]_vars

\* the order of a cycle: one or two devices that answer every request, a meter
\* that comes, rises and goes, the control of d1 with its writes and overrides
OrderLists ==
    { <<Dev("d1", "ONLINE")>>, <<Dev("d1", "ONLINE"), Dev("d2", "ONLINE")>> }

NextOrder ==
    \/ AsyncSetup("ok", "ok", <<Dev("d1", "ONLINE")>>)
    \/ StartCycle
    \/ \E list \in OrderLists : ListDevices("ok", "ok", list)
    \/ /\ pc = "read"
       /\ \E params \in PollReadings(dev_r01[devices[idx].deviceCode]) :
                    ReadParams("ok", "ok", params)
    \/ UpdateMinimumControl
    \/ \E r \in {"ok", "error"} : WriteDone("ok", r)
    \/ EndCycle
    \/ EnableMinimumControl("d1", 1000)
    \/ ExternalWrite("d1", 1300)
    \/ \E m \in {None, Num(100), Num(105)} : MeterChange(m)

SpecOrder == Init /\ [][NextOrder]_vars

\* the entities: one device that is online or offline, whose T03 is at times
\* absent, and reads that fail
EntityLists == { <<Dev("d1", "ONLINE")>>, <<Dev("d1", "OFFLINE")>> }

EntityReadings(r01) ==
    { [T02 |-> Num(1300), T03 |-> t03, R01 |-> Num(r01)] : t03 \in {Num(1400), None} }

NextEntity ==
    \/ \E lg \in LoginResponses, list \in EntityLists : AsyncSetup(lg, "ok", list)
    \/ StartCycle
    \/ \E lg \in LoginChoices, r \in Responses, list \in EntityLists :
            ListDevices(lg, r, list)
    \/ /\ pc = "read"
       /\ \E lg \in LoginChoices, r \in Responses,
             params \in EntityReadings(dev_r01[devices[idx].deviceCode]) :
                    ReadParams(lg, r, params)
    \/ UpdateMinimumControl
    \/ EndCycle
    \/ \E v \in Setpoints : ExternalWrite("d1", v)
    \/ BottomSetTemperature("d1", 1000)
    \/ BottomTurnOff("d1")
    \/ \E prop \in {"target_temperature", "extra_state_attributes"} :
            BottomState("d1", prop)

SpecEntity == Init /\ [][NextEntity]_vars

\* COP: one device whose bottom sensor T02 reads 50.0 or 64.35 degC or is
\* absent, a meter that rises, falls, or is not a number, and the control of
\* d1 with its writes and overrides
MeterValues == { None, NonNum, Num(100), Num(102), Num(105) }

CopReadings(r01) ==
    { [T02 |-> t02, T03 |-> Num(t03), R01 |-> Num(r01)] :
            t02 \in {Num(1000), Num(1287), None}, t03 \in {1400, 1406} }

NextCop ==
    \/ AsyncSetup("ok", "ok", <<Dev("d1", "ONLINE")>>)
    \/ StartCycle
    \/ ListDevices("ok", "ok", <<Dev("d1", "ONLINE")>>)
    \/ /\ pc = "read"
       /\ \E params \in CopReadings(dev_r01[devices[idx].deviceCode]) :
                    ReadParams("ok", "ok", params)
    \/ UpdateMinimumControl
    \/ \E r \in {"ok", "error"} : WriteDone("ok", r)
    \/ EndCycle
    \/ EnableMinimumControl("d1", 1000)
    \/ ExternalWrite("d1", 1300)
    \/ \E m \in MeterValues : MeterChange(m)

SpecCop == Init /\ [][NextCop]_vars

\* two devices side by side: both answer every request, each has its own
\* control, d1 is at times set by hand, and the meter comes and rises
ShareReadings(code) ==
    { [T02 |-> Num(1300), T03 |-> Num(t03), R01 |-> Num(dev_r01[code])] :
            t03 \in IF code = "d1" THEN {1400, 1406} ELSE {1400} }

NextShare ==
    \/ AsyncSetup("ok", "ok", <<Dev("d1", "ONLINE"), Dev("d2", "ONLINE")>>)
    \/ StartCycle
    \/ ListDevices("ok", "ok", <<Dev("d1", "ONLINE"), Dev("d2", "ONLINE")>>)
    \/ /\ pc = "read"
       /\ \E params \in ShareReadings(devices[idx].deviceCode) :
                    ReadParams("ok", "ok", params)
    \/ UpdateMinimumControl
    \/ WriteDone("ok", "ok")
    \/ EndCycle
    \/ EnableMinimumControl("d1", 1000)
    \/ EnableMinimumControl("d2", 1800)
    \/ DisableMinimumControl("d2")
    \/ ExternalWrite("d1", 1300)
    \/ \E m \in {Num(100), Num(105)} : MeterChange(m)

SpecShare == Init /\ [][NextShare]_vars

\* one change of the driver: the top sensor T03 of d1 reads 70.0 degC until
\* the control is enabled and steady, moves once to 70.3 or 70.6 degC and
\* stays there; every write succeeds and is read back, and the setpoint is
\* set by hand only before the control is enabled.  The bottom sensor T02,
\* always below T03, reads 65.0 degC before the move, 65.5 in the first
\* snapshot after it and 66.0 from then on
StormSetpoints == { 1300, 1500 }

SteadyAt(d, driver) ==
    /\ minimum_control_enabled[d]
    /\ last_max_temp[d] = Num(driver)
    /\ last_r01[d] = Num(dev_r01[d])

StormReadings(d) ==
    LET t02 == GetDeviceParam(d, "T02")
        t03 == GetDeviceParam(d, "T03")
        r01 == Num(dev_r01[d])
    IN  IF t02 # None /\ t02.v > 1300
        THEN { [T02 |-> Num(1320), T03 |-> t03, R01 |-> r01] }
        ELSE { [T02 |-> Num(1300), T03 |-> Num(1400), R01 |-> r01] }
             \cup IF SteadyAt(d, 1400)
                  THEN { [T02 |-> Num(1310), T03 |-> Num(moved), R01 |-> r01] :
                            moved \in {1406, 1412} }
                  ELSE {}

NextStorm ==
    \/ AsyncSetup("ok", "ok", <<Dev("d1", "ONLINE")>>)
    \/ StartCycle
    \/ ListDevices("ok", "ok", <<Dev("d1", "ONLINE")>>)
    \/ /\ pc = "read"
       /\ \E params \in StormReadings(devices[idx].deviceCode) :
                    ReadParams("ok", "ok", params)
    \/ UpdateMinimumControl
    \/ WriteDone("ok", "ok")
    \/ EndCycle
    \/ /\ minimum_target["d1"] = None
       /\ \E t \in Targets : EnableMinimumControl("d1", t)
    \/ /\ minimum_target["d1"] = None
       /\ \E v \in StormSetpoints : ExternalWrite("d1", v)

SpecStorm == Init /\ [][NextStorm]_vars

\* setting a target: between two cycles a caller enables the control of d and
\* then writes the setpoint the calculation gives for the target; the write
\* succeeds
EnableThenWrite(d, min_target) ==
    /\ pc = "idle"
    /\ client
    /\ CalculateR01FromMinimumTarget(d, min_target) # None
    /\ minimum_control_enabled' = [minimum_control_enabled EXCEPT ![d] = TRUE]
    /\ minimum_target' = [minimum_target EXCEPT ![d] = Num(min_target)]
    /\ last_max_temp' = [last_max_temp EXCEPT ![d] = GetMaxTemp(d)]
    /\ UNCHANGED last_r01
    /\ stale_r01' = [stale_r01 EXCEPT ![d] =
                        IF minimum_control_enabled[d] THEN stale_r01[d]
                        ELSE last_r01[d] # None]
    /\ AsyncWriteParam(d, CalculateR01FromMinimumTarget(d, min_target).v, "ok", "ok")
    /\ ext_pending' = [ext_pending EXCEPT ![d] = TRUE]
    /\ UNCHANGED <<coordVars, copVars, cycVars, energy_meter,
                   writes, ext_seen, taken, data_at_start>>
    /\ UNCHANGED calc

\* one device whose driver reads 70.0 or 70.3 degC; the control is disabled
\* by the caller or by a setpoint of 65 degC set at the device, and a target
\* of 50 or 90 degC is set again
NextSetTarget ==
    \/ AsyncSetup("ok", "ok", <<Dev("d1", "ONLINE")>>)
    \/ StartCycle
    \/ ListDevices("ok", "ok", <<Dev("d1", "ONLINE")>>)
    \/ /\ pc = "read"
       /\ \E params \in PollReadings(dev_r01[devices[idx].deviceCode]) :
                    ReadParams("ok", "ok", params)
    \/ UpdateMinimumControl
    \/ WriteDone("ok", "ok")
    \/ EndCycle
    \/ \E t \in Targets : EnableThenWrite("d1", t)
    \/ DisableMinimumControl("d1")
    \/ /\ ~ext_pending["d1"]
       /\ ExternalWrite("d1", 1300)

SpecSetTarget == Init /\ [][NextSetTarget]_vars

\* a drifting driver: the top sensor T03 of d1 starts at 70.0 degC and from
\* one snapshot to the next stays, rises by 0.05 degC up to 70.4, or jumps to
\* 70.6; the setpoint starts at 60.0 degC, the ideal one for the target of
\* 50 degC, which is set while the driver still reads 70.0; every write
\* succeeds and no other party writes
DriftJump == DriftTop + 4

DriftReadings(d) ==
    LET t03 == GetDeviceParam(d, "T03")
        r01 == Num(dev_r01[d])
        next == IF t03 = None THEN {1400}
                ELSE IF t03.v = DriftJump THEN {DriftJump}
                ELSE {t03.v, Min2(t03.v + 1, DriftTop), DriftJump}
    IN  { [T02 |-> Num(1300), T03 |-> Num(t), R01 |-> r01] : t \in next }

NextDrift ==
    \/ AsyncSetup("ok", "ok", <<Dev("d1", "ONLINE")>>)
    \/ StartCycle
    \/ ListDevices("ok", "ok", <<Dev("d1", "ONLINE")>>)
    \/ /\ pc = "read"
       /\ \E params \in DriftReadings(devices[idx].deviceCode) :
                    ReadParams("ok", "ok", params)
    \/ UpdateMinimumControl
    \/ WriteDone("ok", "ok")
    \/ EndCycle
    \/ /\ minimum_target["d1"] = None
       /\ GetDeviceParam("d1", "T03") \in {None, Num(1400)}
       /\ EnableMinimumControl("d1", 1000)

SpecDrift == Init /\ [][NextDrift]_vars

\* far outside the bounds: targets of 0, 50 and 200 degC and a tank whose
\* two sensors read 10, 70, 70.3 or 120 degC; the control of d1 is enabled
\* and disabled and yields to a setpoint of 65 degC set at the device
LegalTargets == { 0, 1000, 4000 }

LegalReadings(r01) ==
    { [T02 |-> Num(t - 100), T03 |-> Num(t), R01 |-> Num(r01)] :
            t \in {200, 1400, 1406, 2400} }

NextLegal ==
    \/ AsyncSetup("ok", "ok", <<Dev("d1", "ONLINE")>>)
    \/ StartCycle
    \/ ListDevices("ok", "ok", <<Dev("d1", "ONLINE")>>)
    \/ /\ pc = "read"
       /\ \E params \in LegalReadings(dev_r01[devices[idx].deviceCode]) :
                    ReadParams("ok", "ok", params)
    \/ UpdateMinimumControl
    \/ \E r \in {"ok", "error"} : WriteDone("ok", r)
    \/ EndCycle
    \/ \E t \in LegalTargets : EnableMinimumControl("d1", t)
    \/ DisableMinimumControl("d1")
    \/ ExternalWrite("d1", 1300)

SpecLegal == Init /\ [][NextLegal]_vars

\* the answers of the server as the transport client reads them: a message
\* is the sequence of the characters of error_msg, and a request may also end
\* in aiohttp.ClientError
LowerOf ==
    [A |-> "a", B |-> "b", C |-> "c", D |-> "d", E |-> "e", F |-> "f", G |-> "g",
     H |-> "h", I |-> "i", J |-> "j", K |-> "k", L |-> "l", M |-> "m", N |-> "n",
     O |-> "o", P |-> "p", Q |-> "q", R |-> "r", S |-> "s", T |-> "t", U |-> "u",
     V |-> "v", W |-> "w", X |-> "x", Y |-> "y", Z |-> "z"]

\* str.lower()
Lower(msg) ==
    [i \in 1..Len(msg) |-> IF msg[i] \in DOMAIN LowerOf THEN LowerOf[msg[i]] ELSE msg[i]]

\* pat in msg
Contains(msg, pat) ==
    \E i \in 1..(Len(msg) - Len(pat) + 1) : SubSeq(msg, i, i + Len(pat) - 1) = pat

Success == <<"S", "u", "c", "c", "e", "s", "s">>
TokenExpired == <<"T", "o", "k", "e", "n", " ", "e", "x", "p", "i", "r", "e", "d">>
InvalidToken == <<"i", "n", "v", "a", "l", "i", "d", " ", "x", "-", "T", "O", "K", "E", "N">>
Unauthorized == <<"U", "n", "a", "u", "t", "h", "o", "r", "i", "z", "e", "d">>
AuthFailed == <<"A", "U", "T", "H", " ", "f", "a", "i", "l", "e", "d">>
DeviceOffline == <<"D", "e", "v", "i", "c", "e", " ", "o", "f", "f", "l", "i", "n", "e">>
UnknownError == <<"U", "n", "k", "n", "o", "w", "n", " ", "e", "r", "r", "o", "r">>
WrongPassword == <<"W", "r", "o", "n", "g", " ", "p", "a", "s", "s", "w", "o", "r", "d">>

ClientError == [k |-> "ClientError"]
Answer(msg, has_token) == [k |-> "json", error_msg |-> msg, x_token |-> has_token]

Messages ==
    { Success, TokenExpired, InvalidToken, Unauthorized, AuthFailed, DeviceOffline,
      UnknownError }

\* what the server may answer to a list, read or write request
RequestAnswers == { Answer(msg, FALSE) : msg \in Messages } \cup { ClientError }

\* what the server may answer to a login
LoginAnswers ==
    { Answer(Success, TRUE), Answer(Success, FALSE), Answer(WrongPassword, FALSE),
      Answer(TokenExpired, FALSE), ClientError }

\* variant: the message is searched as it came, without lower()
ResponseKindCaseSensitive(answer) ==
    IF answer = ClientError THEN "client_error"
    ELSE IF answer.error_msg = Success THEN "ok"
    ELSE IF Contains(answer.error_msg, <<"t", "o", "k", "e", "n">>)
            \/ Contains(answer.error_msg, <<"a", "u", "t", "h">>) THEN "auth"
    ELSE "error"

\* how get_devices, read_params and write_param take the answer to their request
ResponseKind(answer) ==
    IF answer = ClientError THEN "client_error"
    ELSE IF answer.error_msg = Success THEN "ok"
    ELSE IF Contains(Lower(answer.error_msg), <<"t", "o", "k", "e", "n">>)
            \/ Contains(Lower(answer.error_msg), <<"a", "u", "t", "h">>) THEN "auth"
    ELSE "error"

\* how login takes the answer to it
LoginKind(answer) ==
    IF answer = ClientError THEN "client_error"
    ELSE IF answer.error_msg # Success THEN "fail"
    ELSE IF ~answer.x_token THEN "fail"
    ELSE "ok"

\* a call of get_devices ("list"), read_params ("read") or write_param
\* ("write", of 65 degC to R01 of d) between two cycles; login_answer is what
\* the server answers to the login the call makes when it holds no token
ApiCall(op, d, login_answer, answer) ==
    LET lg == LoginKind(login_answer)
        r == ResponseKind(answer)
        ret == IF op = "write" THEN WriteOutcome(lg, r) ELSE ApiOutcome(lg, r)
    IN  /\ pc = "idle"
        /\ client
        /\ token \/ login_answer \in LoginAnswers
        /\ ~token \/ login_answer = Answer(Success, TRUE)
        /\ token' = ApiToken(lg, r)
        /\ calc' = [op |-> op, dev |-> d, had_token |-> token,
                    login_answer |-> login_answer, answer |-> answer, ret |-> ret]
        /\ IF op = "write" /\ ret = "ok"
           THEN /\ dev_r01' = [dev_r01 EXCEPT ![d] = 1300]
                /\ ext_pending' = [ext_pending EXCEPT ![d] = TRUE]
           ELSE UNCHANGED <<dev_r01, ext_pending>>
        /\ UNCHANGED <<client, devices, data, result, refresh_requested, ctlVars,
                       copVars, cycVars, energy_meter, writes, ext_seen, stale_r01,
                       taken, data_at_start>>

NextApi ==
    \/ \E lg \in LoginResponses, r \in Responses :
            AsyncSetup(lg, r, <<Dev("d1", "ONLINE")>>)
    \/ \E op \in {"list", "read", "write"}, login_answer \in LoginAnswers,
          answer \in RequestAnswers :
            ApiCall(op, "d1", login_answer, answer)

SpecApi == Init /\ [][NextApi]_vars

\* the COP through good and failed cycles: one device without control whose
\* bottom sensor T02 reads 50.0 or 64.35 degC or is absent, every response of
\* the cloud, and a meter that rises, falls, or is not a number
HoldReadings(r01) ==
    { [T02 |-> t02, T03 |-> Num(1400), R01 |-> Num(r01)] :
            t02 \in {Num(1000), Num(1287), None} }

NextHold ==
    \/ AsyncSetup("ok", "ok", <<Dev("d1", "ONLINE")>>)
    \/ StartCycle
    \/ \E lg \in LoginChoices, r \in Responses :
            ListDevices(lg, r, <<Dev("d1", "ONLINE")>>)
    \/ /\ pc = "read"
       /\ \E lg \in LoginChoices, r \in Responses,
             params \in HoldReadings(dev_r01[devices[idx].deviceCode]) :
                    ReadParams(lg, r, params)
    \/ UpdateMinimumControl
    \/ EndCycle
    \/ \E m \in MeterValues : MeterChange(m)

SpecHold == Init /\ [][NextHold]_vars

\* the calculations: one device whose sensors read 30.0 to 70.0 degC or are
\* unreadable, targets of 40, 50 and 90 degC, no control enabled
CalcTargets == { 800, 1000, 1800 }

CalcReadings(r01) ==
    { [T02 |-> t02, T03 |-> t03, R01 |-> Num(r01)] :
            t02 \in {Num(600), Num(1300), None},
            t03 \in {Num(602), Num(1286), Num(1400), NonNum} }

NextCalc ==
    \/ AsyncSetup("ok", "ok", <<Dev("d1", "ONLINE")>>)
    \/ StartCycle
    \/ ListDevices("ok", "ok", <<Dev("d1", "ONLINE")>>)
    \/ /\ pc = "read"
       /\ \E params \in CalcReadings(dev_r01[devices[idx].deviceCode]) :
                    ReadParams("ok", "ok", params)
    \/ UpdateMinimumControl
    \/ EndCycle
    \/ \E t \in CalcTargets : CalculateR01Call("d1", t)
    \/ \E passes \in BOOLEAN : CalculateMinimumTargetCall("d1", passes)

SpecCalc == Init /\ [][NextCalc]_vars

----------------------------------------------------------------------------
(* The claims.  Their cases are stated on the snapshot itself: the registers *)
(* of data, the legal range 38..75 degC (760..1500) and the deadband of      *)
(* 0.1 degC (2).                                                             *)

\* the pass of device d is about to run
PassAt(d) == pc = "pass" /\ pidx <= Len(Order) /\ Order[pidx] = d

Reg(d, code) == IF d \in DOMAIN data THEN data[d]._params[code] ELSE [k |-> "none"]
Numeric(d, code) == Reg(d, code).k = "num"
DriverReadable(d) == Numeric(d, "T02") /\ Numeric(d, "T03")
AllReadable(d) == DriverReadable(d) /\ Numeric(d, "R01")
Driver(d) ==
    IF Reg(d, "T02").v > Reg(d, "T03").v THEN Reg(d, "T02").v ELSE Reg(d, "T03").v
Setpoint(d) == Reg(d, "R01").v
Ideal(d, target) ==
    LET half == (target + Driver(d)) \div 2
    IN  IF half < 760 THEN 760 ELSE IF half > 1500 THEN 1500 ELSE half
Far(a, b) == a - b > 2 \/ b - a > 2
Absent == [k |-> "none"]
Float(n) == [k |-> "num", v |-> n]

\* C1: after a poll cycle that failed, at the device listing or at the register
\* read of any device, the snapshot is the one from before the cycle started
C1_FailedCycleKeepsSnapshot ==
    (pc = "idle" /\ result \in {"update_failed", "auth_failed"})
    => /\ data = data_at_start
       /\ \A d \in DOMAIN data_at_start :
             /\ GetDeviceInfo(d) = data_at_start[d]._device
             /\ \A code \in ParamCodes :
                   GetDeviceParam(d, code) = data_at_start[d]._params[code]

\* a cycle failed at the read of its second device after it had read new
\* registers for the first one
C1_Witness ==
    /\ pc = "idle"
    /\ result = "update_failed"
    /\ "d1" \in DOMAIN new_data
    /\ "d1" \in DOMAIN data
    /\ new_data["d1"] # data["d1"]
    /\ data = data_at_start

\* an override is about to be detected for d
OverrideCase(d) ==
    /\ PassAt(d)
    /\ minimum_control_enabled[d]
    /\ AllReadable(d)
    /\ last_r01[d] # Absent
    /\ Far(Setpoint(d), last_r01[d].v)

\* C2: whenever a pass takes the override branch, another party wrote the
\* setpoint register of the device since the baseline the pass compares with
\* was recorded (and before the registers were read)
C2_OverrideMeansForeignWrite ==
    \A d \in DeviceCodes : OverrideCase(d) => ext_seen[d]

\* C3: when the write of the driver-change branch fails, the control state of
\* the device after the write returned equals the state before
C3_FailedWriteChangesNothing ==
    [][\A d \in DeviceCodes :
          (pc = "write" /\ Order[pidx] = d /\ pc' = "pass"
              /\ ~writes'[Len(writes')].ok)
          => CtlOf(d)' = CtlOf(d)]_vars

\* the driver-change case: no override, the driver moved off its baseline and
\* the clamped ideal setpoint is off the current one
DriverChangeCase(d) ==
    /\ PassAt(d)
    /\ minimum_control_enabled[d]
    /\ AllReadable(d)
    /\ ~(last_r01[d] # Absent /\ Far(Setpoint(d), last_r01[d].v))
    /\ last_max_temp[d] # Absent
    /\ Far(Driver(d), last_max_temp[d].v)
    /\ Far(Ideal(d, minimum_target[d].v), Setpoint(d))

\* C4: in the driver-change case the pass issues one write, of
\* clamp((target + driver) / 2, 38, 75), to R01 and changes nothing until the
\* write returns; when it returns, exactly that one write was made, the
\* setpoint baseline is the written value, the driver baseline is as it was
\* and the pass is over
C4_DriverChangeWritesIdeal ==
    [][\A d \in DeviceCodes :
          /\ DriverChangeCase(d)
             => /\ pc' = "write"
                /\ pending' = Float(Ideal(d, minimum_target[d].v))
                /\ CtlOf(d)' = CtlOf(d)
                /\ writes' = writes
          /\ (pc = "write" /\ Order[pidx] = d /\ pc' # "write")
             => /\ Len(writes') = Len(writes) + 1
                /\ writes'[Len(writes')].dev = d
                /\ writes'[Len(writes')].code = "R01"
                /\ writes'[Len(writes')].value = pending.v
                /\ writes'[Len(writes')].ok => dev_r01'[d] = pending.v
                /\ last_r01'[d] = pending
                /\ last_max_temp'[d] = last_max_temp[d]
                /\ pc' = "pass"
                /\ pidx' = pidx + 1]_vars

\* a pass wrote a value that differs from the setpoint it had read, and the
\* driver baseline still is the one from before the pass although the driver moved
C4_Witness ==
    /\ pc = "pass"
    /\ taken # NoPass
    /\ taken.dev = "d1"
    /\ Len(writes) = taken.nwrites + 1
    /\ last_r01["d1"] = Float(writes[Len(writes)].value)
    /\ Setpoint("d1") # writes[Len(writes)].value
    /\ last_max_temp["d1"] = taken.before.last_max
    /\ Driver("d1") # last_max_temp["d1"].v

\* C5: a pass that finds the setpoint off its baseline by more than 0.1
\* disables the control, takes the current setpoint and driver as baselines
\* and issues no write
C5_OverrideYields ==
    [][\A d \in DeviceCodes :
          OverrideCase(d)
          => /\ ~minimum_control_enabled'[d]
             /\ last_r01'[d] = Float(Setpoint(d))
             /\ last_max_temp'[d] = Float(Driver(d))
             /\ minimum_target'[d] = minimum_target[d]
             /\ pc' = "pass"
             /\ pending' = Absent
             /\ writes' = writes
             /\ dev_r01' = dev_r01]_vars

\* an override was handled while the driver had moved by more than 0.1 as well
C5_Witness ==
    /\ pc = "pass"
    /\ taken # NoPass
    /\ taken.dev = "d1"
    /\ taken.before.enabled
    /\ AllReadable("d1")
    /\ taken.before.last_r01 # Absent
    /\ Far(Setpoint("d1"), taken.before.last_r01.v)
    /\ taken.before.last_max # Absent
    /\ Far(Driver("d1"), taken.before.last_max.v)
    /\ ~minimum_control_enabled["d1"]
    /\ Len(writes) = taken.nwrites

\* a call of enable for d: the control goes from disabled to enabled, or its
\* target changes
EnableStep(d) ==
    \/ ~minimum_control_enabled[d] /\ minimum_control_enabled'[d]
    \/ minimum_target'[d] # minimum_target[d]

\* C6: enable leaves the control enabled with the given target, the driver
\* baseline equal to the driver value of the snapshot and the setpoint
\* baseline equal to the setpoint of the snapshot
C6_EnableCapturesBothBaselines ==
    [][\A d \in DeviceCodes :
          EnableStep(d)
          => /\ minimum_control_enabled'[d]
             /\ minimum_target'[d] # Absent
             /\ last_max_temp'[d] =
                    IF DriverReadable(d) THEN Float(Driver(d)) ELSE Absent
             /\ last_r01'[d] =
                    IF Numeric(d, "R01") THEN Float(Setpoint(d)) ELSE Absent]_vars

\* C7: once the control was disabled and enabled again, no pass compares the
\* setpoint with a baseline recorded during the earlier enabled period
C7_NoBaselineSurvivesDisable ==
    \A d \in DeviceCodes :
        (PassAt(d) /\ minimum_control_enabled[d] /\ AllReadable(d)
            /\ last_r01[d] # Absent)
        => ~stale_r01[d]

\* C8: a pass of an enabled control that finds T02, T03 or R01 absent or not
\* a number changes nothing and issues no write
C8_UnreadableIsNoOp ==
    [][\A d \in DeviceCodes :
          (PassAt(d) /\ minimum_control_enabled[d] /\ ~AllReadable(d))
          => /\ CtlOf(d)' = CtlOf(d)
             /\ pc' = "pass"
             /\ pending' = Absent
             /\ writes' = writes
             /\ dev_r01' = dev_r01]_vars

\* a pass met an unreadable register and kept the baselines it had
C8_Witness ==
    /\ pc = "pass"
    /\ taken # NoPass
    /\ taken.dev = "d1"
    /\ taken.before.enabled
    /\ ~AllReadable("d1")
    /\ taken.before.last_r01 # Absent
    /\ taken.before.last_max # Absent
    /\ CtlOf("d1") = taken.before
    /\ Len(writes) = taken.nwrites

\* the first pass of an enabled control that has no setpoint baseline
FirstPassCase(d) ==
    /\ PassAt(d)
    /\ minimum_control_enabled[d]
    /\ AllReadable(d)
    /\ last_r01[d] = Absent

\* C9 as claimed: the first pass without a setpoint baseline issues no write,
\* whatever the driver value, and records the setpoint and driver as baselines
C9_FirstPassNeverWrites ==
    [][\A d \in DeviceCodes :
          FirstPassCase(d)
          => /\ pc' = "pass"
             /\ writes' = writes
             /\ last_r01'[d] = Float(Setpoint(d))
             /\ last_max_temp'[d] = Float(Driver(d))]_vars

\* C9 amended: the first pass without a setpoint baseline issues the
\* driver-change write when the driver is off the baseline enable captured by
\* more than 0.1 and the ideal setpoint is off the current one by more than
\* 0.1; otherwise it issues no write and only records the baselines
C9_FirstPassWritesOnlyOnDriverChange ==
    [][\A d \in DeviceCodes :
          FirstPassCase(d)
          => IF /\ last_max_temp[d] # Absent
                /\ Far(Driver(d), last_max_temp[d].v)
                /\ Far(Ideal(d, minimum_target[d].v), Setpoint(d))
             THEN /\ pc' = "write"
                  /\ pending' = Float(Ideal(d, minimum_target[d].v))
                  /\ CtlOf(d)' = CtlOf(d)
             ELSE /\ pc' = "pass"
                  /\ pending' = Absent
                  /\ writes' = writes
                  /\ minimum_control_enabled'[d]
                  /\ minimum_target'[d] = minimum_target[d]
                  /\ last_r01'[d] = Float(Setpoint(d))
                  /\ last_max_temp'[d] = Float(Driver(d))]_vars

\* a first pass found the driver moved by 0.1 since enable, far from the ideal
\* setpoint, wrote nothing and recorded the baselines
C9_Witness ==
    /\ pc = "pass"
    /\ taken # NoPass
    /\ taken.dev = "d1"
    /\ taken.before.enabled
    /\ taken.before.last_r01 = Absent
    /\ AllReadable("d1")
    /\ taken.before.last_max # Absent
    /\ Driver("d1") # taken.before.last_max.v
    /\ Far(Ideal("d1", minimum_target["d1"].v), Setpoint("d1"))
    /\ last_r01["d1"] = Float(Setpoint("d1"))
    /\ last_max_temp["d1"] = Float(Driver("d1"))
    /\ Len(writes) = taken.nwrites

\* the transport write fails: no client, a login that is needed and refused or
\* unreachable, or a request answered with an auth error, a rejection or not
\* at all
WriteFails(lg, r) == ~client \/ (~token /\ lg # "ok") \/ r # "ok"

\* C12: a call of the write gateway whose transport write fails returns false,
\* ends no cycle with an exception, requests no refresh and leaves the device,
\* the snapshot and, when called by the presentation layer, all control and
\* COP state as they were
C12_FailedGatewayWriteChangesNothing ==
    [][\A lg \in LoginResponses, r \in Responses :
          WriteFails(lg, r)
          => /\ ~WriteSucceeds(lg, r)
             /\ UserWrite("d1", 1300, lg, r)
                => /\ refresh_requested' = refresh_requested
                   /\ dev_r01' = dev_r01
                   /\ data' = data
                   /\ ctlVars' = ctlVars
                   /\ copVars' = copVars
                   /\ result' = result
                   /\ pc' = pc
             /\ WriteDone(lg, r)
                => /\ refresh_requested' = refresh_requested
                   /\ dev_r01' = dev_r01
                   /\ data' = data
                   /\ result' = result
                   /\ pc' = "pass"]_vars

\* a write was answered with an auth error after the last successful cycle, and
\* no refresh is requested
C12_Witness ==
    /\ pc = "idle"
    /\ result = "ok"
    /\ client
    /\ ~token
    /\ ~refresh_requested
    /\ "d1" \in DOMAIN data
    /\ dev_r01["d1"] = 1200

\* the deviceCodes of the listed devices that have one
Listed == { devices[i].deviceCode : i \in 1..Len(devices) } \ {""}

\* C13: the snapshot is replaced only once the registers of every listed
\* device were read; the passes run only after that, one device after the
\* other, and the cycle ends after the last one; the pass of every device of
\* the snapshot ends with the COP pass, also after a write or an override; the
\* reconcile pass of a device whose control is disabled changes nothing
C13_CycleOrder ==
    [][/\ data' # data
          => /\ pc = "read" /\ pc' = "pass" /\ pidx' = 1
             /\ DOMAIN data' = Listed
             /\ \A d \in Listed : d \in DOMAIN new_data \/ d = devices[idx].deviceCode
       /\ (pc' \in {"pass", "write"} /\ pc \notin {"pass", "write"})
          => /\ pc \in {"list", "read"} /\ pc' = "pass" /\ pidx' = 1
             /\ DOMAIN data' = Listed
       /\ (copVars' # copVars \/ writes' # writes) => pc \in {"pass", "write"}
       /\ pc \in {"pass", "write"}
          => /\ data' = data /\ devices' = devices
             /\ pidx' = pidx \/ pidx' = pidx + 1 \/ (pc' = "idle" /\ pidx = Len(Order) + 1)
             /\ pc' = "idle" => (pc = "pass" /\ pidx = Len(Order) + 1 /\ result' = "ok")
       /\ \A d \in DeviceCodes :
             /\ (pc \in {"pass", "write"} /\ pidx <= Len(Order) /\ Order[pidx] = d
                    /\ pidx' = pidx + 1 /\ energy_meter.k = "num")
                => cop_last_energy_meter'[d] = energy_meter
             /\ (PassAt(d) /\ ~minimum_control_enabled[d])
                => /\ CtlOf(d)' = CtlOf(d)
                   /\ pidx' = pidx + 1
                   /\ pending' = Absent
                   /\ dev_r01' = dev_r01]_vars

\* both devices of a snapshot had their pass, the one of d1 with a write, and
\* the COP pass has recorded the meter for both
C13_Witness ==
    /\ pc = "pass"
    /\ Len(Order) = 2
    /\ pidx = 3
    /\ Len(writes) = 1
    /\ writes[1].dev = "d1"
    /\ energy_meter = Float(105)
    /\ cop_last_energy_meter["d1"] = Float(105)
    /\ cop_last_energy_meter["d2"] = Float(105)
    /\ cop_current["d1"] # Absent

\* C14: whenever a cycle has replaced the snapshot, and after every successful
\* cycle, the devices of the snapshot are exactly the listed devices that have
\* a deviceCode, each with the metadata of the list and the registers read in
\* this cycle
C14_SnapshotIsTheListedDevices ==
    [][/\ (pc' \in {"pass", "write"} \/ (pc' = "idle" /\ result' = "ok"))
          => /\ DOMAIN data' = Listed'
             /\ \A i \in 1..Len(devices') :
                   devices'[i].deviceCode # ""
                   => data'[devices'[i].deviceCode]._device = devices'[i]
       /\ (pc = "list" /\ pc' = "read") => new_data' = << >>
       /\ data' # data
          => \A d \in DOMAIN data' :
                IF d \in DOMAIN new_data
                THEN data'[d] = new_data[d]
                ELSE /\ d = devices[idx].deviceCode
                     /\ data'[d]._params["R01"] = Float(dev_r01[d])]_vars

\* a device that was in an earlier snapshot, where its control was enabled, is
\* absent from the snapshot of the last successful cycle
C14_Witness ==
    /\ pc = "idle"
    /\ result = "ok"
    /\ "d1" \notin DOMAIN data
    /\ "d2" \in DOMAIN data
    /\ last_max_temp["d1"] # Absent

\* the answers of the cloud that make a request raise the auth error: a
\* refused login where one is needed, or an auth answer to the request; and
\* those that make it raise the connectivity error
AuthAnswer(lg, r) == (~token /\ lg = "fail") \/ ((token \/ lg = "ok") /\ r = "auth")
ConnAnswer(lg, r) ==
    \/ ~token /\ lg = "client_error"
    \/ (token \/ lg = "ok") /\ r \in {"error", "client_error"}

\* a step of the listing or of a register read under the answers lg, r
RequestStep(lg, r) ==
    \/ \E list \in PollLists : ListDevices(lg, r, list)
    \/ /\ pc = "read"
       /\ \E params \in PollReadings(dev_r01[devices[idx].deviceCode]) :
             ReadParams(lg, r, params)

\* the cycle is over without a further read, a pass or a write
Aborted ==
    /\ pc' = "idle"
    /\ new_data' = new_data /\ idx' = idx
    /\ data' = data
    /\ ctlVars' = ctlVars /\ copVars' = copVars
    /\ writes' = writes /\ dev_r01' = dev_r01
    /\ refresh_requested' = refresh_requested

\* C15: a listing or a register read that raises the auth error ends the cycle
\* with the auth failure, one that raises the connectivity error with the
\* retryable failure, and in both cases the cycle is over at that point
C15_ErrorsAbortTheCycle ==
    [][\A lg \in LoginResponses, r \in Responses :
          RequestStep(lg, r)
          => /\ AuthAnswer(lg, r) => (result' = "auth_failed" /\ Aborted)
             /\ ConnAnswer(lg, r) => (result' = "update_failed" /\ Aborted)
             /\ pc' = "idle" => (AuthAnswer(lg, r) \/ ConnAnswer(lg, r))]_vars

\* a cycle ended with the auth failure at the read of its second device
C15_Witness ==
    /\ pc = "idle"
    /\ result = "auth_failed"
    /\ ~token
    /\ Len(devices) = 2
    /\ idx = 2
    /\ DOMAIN new_data = {"d1"}

\* C16: setup returns without an exception only if the login and the device
\* listing both succeeded, and then holds the token and the listed devices; a
\* refused login or an auth answer to the listing gives the auth failure, an
\* unreachable login or any other failed listing the retryable failure, and
\* then no device is listed; the snapshot and the cycle are untouched
C16_SetupOutcome ==
    [][\A lg \in LoginResponses, r \in Responses, list \in PollLists :
          AsyncSetup(lg, r, list)
          => /\ ~client /\ pc = "idle" /\ pc' = "idle" /\ data' = data
             /\ IF lg = "ok" /\ r = "ok"
                THEN result' = result /\ token' /\ devices' = list
                ELSE /\ devices' = devices
                     /\ result' = IF lg = "fail" \/ (lg = "ok" /\ r = "auth")
                                  THEN "auth_failed" ELSE "update_failed"]_vars

\* setup has failed at the login with the auth failure: no device is listed
C16_Witness ==
    /\ client
    /\ ~token
    /\ result = "auth_failed"
    /\ devices = << >>
    /\ pc = "idle"
    /\ data = << >>

\* C17 as claimed: after a cycle, an entity of a device of the snapshot is
\* unavailable if and only if the most recent cycle failed
C17_UnavailableIffLastCycleFailed ==
    pc = "idle"
    => \A d \in DOMAIN data :
          /\ ~Available(d) <=> result \in {"update_failed", "auth_failed"}
          /\ ~BottomAvailable(d) <=> result \in {"update_failed", "auth_failed"}

\* C17 amended: an entity is available if and only if the most recent cycle
\* did not fail, its device is in the snapshot and the deviceStatus of the
\* device is ONLINE; the bottom climate entity requires T03 to be present as
\* well; so every entity is unavailable after a failed cycle
C17_AvailableIffSuccessAndOnline ==
    \A d \in DeviceCodes :
       LET failed == result \in {"update_failed", "auth_failed"}
           online == d \in DOMAIN data /\ data[d]._device.deviceStatus = "ONLINE"
       IN  /\ Available(d) <=> (~failed /\ online)
           /\ BottomAvailable(d)
                 <=> (~failed /\ online /\ data[d]._params["T03"].k # "none")
           /\ failed => (~Available(d) /\ ~BottomAvailable(d))

\* the last cycle succeeded and the device of the snapshot is offline: its
\* entities are unavailable
C17_Witness ==
    /\ pc = "idle"
    /\ result = "ok"
    /\ "d1" \in DOMAIN data
    /\ data["d1"]._device.deviceStatus = "OFFLINE"
    /\ ~Available("d1")
    /\ ~BottomAvailable("d1")

\* the pass of device d ends with this step: its COP pass runs
CopPassOf(d) ==
    /\ pc \in {"pass", "write"}
    /\ pidx <= Len(Order)
    /\ Order[pidx] = d
    /\ pidx' = pidx + 1

\* the stored energy of the snapshot, 300 kg * 0.001163 kWh/(kg K) * T02, in
\* 5e-8 kWh, or absent
StoredNow(d) ==
    IF Numeric(d, "T02") THEN Float(300 * 1163 * Reg(d, "T02").v) ELSE Absent

Magnitude(n) == IF n < 0 THEN 0 - n ELSE n

\* c hundredths is the quotient of ds * 5e-8 kWh by dm kWh rounded to two decimals
RoundedQuotient(c, ds, dm) == 2 * Magnitude(c * 200000 * dm - ds) <= 200000 * dm

C19_CopOnMeterDecrease ==
    [][\A d \in DeviceCodes :
          (CopPassOf(d) /\ energy_meter.k = "num"
              /\ cop_last_energy_meter[d].k = "num"
              /\ energy_meter.v < cop_last_energy_meter[d].v)
          => /\ cop_current'[d] = cop_current[d]
             /\ cop_last_energy_meter'[d] = energy_meter
             /\ cop_energy_stored_at_meter_change'[d] = StoredNow(d)]_vars

\* the COP of 1.0 computed at 105 kWh is still held after the meter fell to 102
C19_Witness ==
    /\ cop_current["d1"] = Float(100)
    /\ cop_last_energy_meter["d1"] = Float(102)

\* C20: the first COP pass of a device that finds a meter reading records the
\* reading and the stored energy and leaves the COP absent; the COP is only
\* ever assigned by a pass that had a recorded reading
C20_CopFirstObservation ==
    [][\A d \in DeviceCodes :
          /\ (CopPassOf(d) /\ energy_meter.k = "num"
                 /\ cop_last_energy_meter[d] = Absent)
             => /\ cop_last_energy_meter'[d] = energy_meter
                /\ cop_energy_stored_at_meter_change'[d] = StoredNow(d)
                /\ cop_current'[d] = Absent
          /\ cop_current'[d] # cop_current[d]
             => (CopPassOf(d) /\ cop_last_energy_meter[d] # Absent)
          /\ cop_last_energy_meter'[d] = Absent => cop_current'[d] = Absent]_vars

\* one observation was made, at 100 kWh and 50.0 degC: no COP
C20_Witness ==
    /\ cop_last_energy_meter["d1"] = Float(100)
    /\ cop_energy_stored_at_meter_change["d1"] = Float(300 * 1163 * 1000)
    /\ cop_current["d1"] = Absent

\* the COP state of device d
CopStateOf(d) ==
    <<cop_last_energy_meter[d], cop_energy_stored_at_meter_change[d], cop_current[d]>>

\* C21: the COP state of a device (recorded meter reading, stored energy at that
\* reading, COP) changes only in the COP pass of the device, and only when the
\* meter reading is present and there is no recorded reading yet or the
\* recorded reading differs; a COP pass with an absent or unchanged meter
\* reading leaves all three as they were, whatever the tank temperature
C21_CopStateChangesOnlyOnMeterChange ==
    [][\A d \in DeviceCodes :
          /\ CopStateOf(d)' # CopStateOf(d)
             => /\ CopPassOf(d)
                /\ energy_meter.k = "num"
                /\ cop_last_energy_meter[d] = Absent
                      \/ cop_last_energy_meter[d] # energy_meter
          /\ (CopPassOf(d) /\ (energy_meter.k # "num"
                                  \/ cop_last_energy_meter[d] = energy_meter))
             => CopStateOf(d)' = CopStateOf(d)]_vars

\* the pass of d1 has run with the meter at its recorded 100 kWh while the tank
\* is at 64.35 degC: the stored energy on record still is the one of 50.0 degC
C21_Witness ==
    /\ pc = "pass"
    /\ pidx = 2
    /\ energy_meter = Float(100)
    /\ cop_last_energy_meter["d1"] = Float(100)
    /\ cop_energy_stored_at_meter_change["d1"] = Float(300 * 1163 * 1000)
    /\ Reg("d1", "T02") = Float(1287)

\* the value of a double without its rounding error, and the ideal setpoint
\* (target + driver) / 2 of a call
Decimal(x) == x.v
IdealOfCall == (calc.target.v + calc.max_temp.v) \div 2
RoundTripCase ==
    /\ calc.op = "target"
    /\ calc.given # Absent
    /\ calc.max_temp # Absent
    /\ calc.max_temp = calc.max_temp_given

\* C22 as claimed: the target implied by the setpoint calculated for a target,
\* with the same driver value, equals that target whenever the ideal setpoint
\* lies within 38..75, and differs only when the setpoint was clamped
C22_RoundTripIsExact ==
    RoundTripCase
    => /\ (IdealOfCall >= 760 /\ IdealOfCall <= 1500) => calc.ret = calc.target
       /\ calc.ret # calc.target => (IdealOfCall < 760 \/ IdealOfCall > 1500)

\* C22 amended: with the ideal setpoint within 38..75 the implied target is
\* the target up to the rounding of double arithmetic, at most 2^-45 degC
\* away from it; with the ideal setpoint outside 38..75 it is the target the
\* clamped setpoint implies, 2 * bound - driver, which is not the target
C22_RoundTripUpToRounding ==
    RoundTripCase
    => IF IdealOfCall >= 760 /\ IdealOfCall <= 1500
       THEN /\ Decimal(calc.ret) = Decimal(calc.target)
            /\ Magnitude(calc.ret.q - calc.target.q) <= 5 * 128
       ELSE /\ Decimal(calc.ret) =
                  2 * (IF IdealOfCall < 760 THEN 760 ELSE 1500) - calc.max_temp.v
            /\ Decimal(calc.ret) # Decimal(calc.target)

\* the round trip of 50 degC at a driver of 30.1 degC came back one rounding
\* error below 50
C22_Witness ==
    /\ RoundTripCase
    /\ calc.target = [k |-> "num", v |-> 1000, q |-> 0]
    /\ calc.max_temp.v = 602
    /\ calc.given.v = 801
    /\ calc.ret.v = 1000
    /\ calc.ret.q < 0

\* C23: the setpoint calculated for a target is clamp((target + driver) / 2,
\* 38, 75) with driver = max(T02, T03) of the snapshot, and it is absent
\* exactly when T02 or T03 is absent or not a number; a driver of 70 and a
\* target of 50 give 60
C23_SetpointIsClampedMean ==
    [][\A t \in CalcTargets :
          (calc' # calc /\ CalculateR01Call("d1", t))
          => /\ calc'.ret = Absent <=> ~DriverReadable("d1")
             /\ DriverReadable("d1")
                => /\ Decimal(calc'.ret) = Ideal("d1", t)
                   /\ 2 * Magnitude(calc'.ret.q) <= 5 * 128
             /\ (DriverReadable("d1") /\ Driver("d1") = 1400 /\ t = 1000)
                => calc'.ret = [k |-> "num", v |-> 1200, q |-> 0]]_vars

\* the setpoint of 50 degC at a driver of 70 degC was calculated: 60
C23_Witness ==
    /\ calc.op = "r01"
    /\ calc.target.v = 1000
    /\ calc.max_temp = [k |-> "num", v |-> 1400, q |-> 0]
    /\ calc.ret = [k |-> "num", v |-> 1200, q |-> 0]

\* clamp(x, 38, 75)
Clamped(x) == IF x < 760 THEN 760 ELSE IF x > 1500 THEN 1500 ELSE x

\* C24 as claimed: the setpoint is the sum target + driver clamped to 38..75
\* and then halved
C24_ClampBeforeHalving ==
    [][\A t \in CalcTargets :
          (calc' # calc /\ CalculateR01Call("d1", t) /\ DriverReadable("d1"))
          => Decimal(calc'.ret) = Clamped(t + Driver("d1")) \div 2]_vars

\* C24 amended: the setpoint is the half of the sum target + driver, clamped
\* to 38..75 after the halving, so it always lies within 38..75
C24_ClampAfterHalving ==
    [][\A t \in CalcTargets :
          (calc' # calc /\ CalculateR01Call("d1", t) /\ DriverReadable("d1"))
          => /\ Decimal(calc'.ret) = Clamped((t + Driver("d1")) \div 2)
             /\ Decimal(calc'.ret) >= 760
             /\ Decimal(calc'.ret) <= 1500]_vars

\* the setpoint of 90 degC at a driver of 70 degC was calculated: 75, the
\* half 80 clamped
C24_Witness ==
    /\ calc.op = "r01"
    /\ calc.target.v = 1800
    /\ calc.max_temp # Absent
    /\ calc.max_temp.v = 1400
    /\ calc.ret.v = 1500

\* C25: both control kinds, bottom and minimum, are implemented, and the
\* entity of the bottom kind enables, disables and queries its control through
\* the coordinator: none of its calls fails
C25_BothControlKindsOperate ==
    calc.op \in {"bottom_set_temperature", "bottom_turn_off",
                 "bottom_target_temperature", "bottom_extra_state_attributes"}
    => /\ ControlKinds = {"bottom", "minimum"}
       /\ calc.ret.k # "AttributeError"

\* a step of the poll cycle: the cycle is past its start and moves on
CycleStep == pc # "idle" /\ (pc' # pc \/ idx' # idx \/ pidx' # pidx)

\* C26 as claimed: the snapshot, the control state and the COP state change
\* only in steps of the poll cycle
C26_StateChangesOnlyInCycle ==
    [][(data' # data \/ ctlVars' # ctlVars \/ copVars' # copVars) => CycleStep]_vars

\* C26 amended: the snapshot, the COP state and the setpoint baseline change
\* only in steps of the poll cycle; the enabled flag, the target and the
\* driver baseline change also when enable or disable is called, outside a
\* cycle or while the cycle is suspended at a network call; a write of the
\* presentation layer through the gateway changes none of them
C26_OnlyEnableAndDisableActOutsideCycle ==
    [][/\ (data' # data \/ copVars' # copVars \/ last_r01' # last_r01) => CycleStep
       /\ (ctlVars' # ctlVars /\ ~CycleStep)
          => \E d \in Controlled :
                \/ \E t \in Targets : EnableMinimumControl(d, t)
                \/ DisableMinimumControl(d)
       /\ (dev_r01' # dev_r01 /\ ~CycleStep)
          => (data' = data /\ ctlVars' = ctlVars /\ copVars' = copVars)]_vars

\* while the write of a pass is awaited, the control the pass is working for
\* was disabled or given another target
C26_Witness ==
    /\ pc = "write"
    /\ taken # NoPass
    /\ taken.dev = "d1"
    /\ taken.before.enabled
    /\ CtlOf("d1") # taken.before
    /\ CtlOf("d1").last_r01 = taken.before.last_r01

\* C27: a pass that finds T02, T03 or R01 absent or not a number in the
\* snapshot goes on to the next device, the cycle does not fail, and the pass
\* leaves the control state of the device as it was; a pass that finds T02
\* unreadable leaves the COP state of the device as it was, also when the
\* meter has changed
C27_UnreadableChangesNothing ==
    [][\A d \in DeviceCodes :
          /\ (PassAt(d) /\ ~AllReadable(d))
             => /\ CtlOf(d)' = CtlOf(d)
                /\ pc' = "pass" /\ pidx' = pidx + 1
                /\ result' = result
          /\ (PassAt(d) /\ ~Numeric(d, "T02"))
             => CopStateOf(d)' = CopStateOf(d)]_vars

\* C28: at the start every control is disabled; in every state the target of
\* a device is present if and only if its control is enabled; enable makes it
\* the target passed, and no other step changes the target of an enabled
\* control or the target stored, a pass that yields to an override included
C28_TargetPresentIffEnabled ==
    /\ \A d \in DeviceCodes : ~IsMinimumControlEnabled(d) /\ GetMinimumTarget(d) = Absent
    /\ [][\A d \in DeviceCodes :
             /\ (GetMinimumTarget(d)' # Absent) <=> IsMinimumControlEnabled(d)'
             /\ \A t \in Targets :
                   EnableMinimumControl(d, t)
                   => (IsMinimumControlEnabled(d)' /\ GetMinimumTarget(d)' = Float(t))
             /\ (GetMinimumTarget(d)' # GetMinimumTarget(d))
                => \/ \E t \in Targets : EnableMinimumControl(d, t)
                   \/ (IsMinimumControlEnabled(d) /\ ~IsMinimumControlEnabled(d)')
             /\ (minimum_target'[d] # minimum_target[d])
                => \E t \in Targets : EnableMinimumControl(d, t)]_vars

\* a pass has yielded to an override: the control is disabled and reports no
\* target, though the target of the last enable is still stored
C28_Witness ==
    /\ pc = "pass"
    /\ taken # NoPass
    /\ taken.dev = "d1"
    /\ taken.before.enabled
    /\ ~IsMinimumControlEnabled("d1")
    /\ minimum_target["d1"] = Float(1800)
    /\ GetMinimumTarget("d1") = Absent

\* a step of the cycle taken for device a: its reconcile pass, the write of
\* that pass and the COP pass that follows
PassStepOf(a) ==
    /\ pc \in {"pass", "write"}
    /\ pidx <= Len(Order)
    /\ Order[pidx] = a
    /\ (pc' # pc \/ pidx' # pidx)

\* C29: enable, disable, a reconcile pass with its write and its override
\* handling, and a COP pass for device a leave the enabled flag, the target,
\* the baselines and the COP tracking state of every other device b unchanged
C29_NoStateSharedAcrossDevices ==
    [][\A a \in DeviceCodes : \A b \in DeviceCodes \ {a} :
          (\/ \E t \in Targets : EnableMinimumControl(a, t)
           \/ DisableMinimumControl(a)
           \/ PassStepOf(a))
          => (CtlOf(b)' = CtlOf(b) /\ CopStateOf(b)' = CopStateOf(b))]_vars

\* the pass for d1 has yielded to an override while the control of d2 is
\* enabled and both devices have COP tracking state: d2 keeps its control
C29_Witness ==
    /\ pc = "pass"
    /\ taken # NoPass
    /\ taken.dev = "d1"
    /\ taken.before.enabled
    /\ ~minimum_control_enabled["d1"]
    /\ minimum_control_enabled["d2"]
    /\ minimum_target["d2"] = Float(1800)
    /\ last_r01["d2"] # Absent
    /\ cop_last_energy_meter["d1"] # Absent
    /\ cop_last_energy_meter["d2"] # Absent

\* a list or read request of the cycle, with the answers lg of the login it
\* may need and r of the server
ListOrRead(lg, r) ==
    \/ ListDevices(lg, r, <<Dev("d1", "ONLINE")>>)
    \/ /\ pc = "read"
       /\ \E params \in PollReadings(dev_r01[devices[idx].deviceCode]) :
                ReadParams(lg, r, params)

\* a write request, from a reconcile pass or from the presentation layer
WriteRequest(lg, r) ==
    \/ WriteDone(lg, r)
    \/ UserWrite("d1", 1300, lg, r)

\* the request did not reach the server: nothing it could have changed or
\* returned is there, and no token is held
NotSent ==
    /\ ~token'
    /\ devices' = devices
    /\ dev_r01' = dev_r01
    /\ data' = data
    /\ refresh_requested' = refresh_requested

\* an auth answer clears the token, and the answer of a request is used only
\* by a client that holds a token again
DeadUntilLogin ==
    /\ \A lg \in LoginChoices :
          (ListOrRead(lg, "auth") \/ WriteRequest(lg, "auth")) => ~token'
    /\ \A lg \in LoginChoices :
          (token /\ ListOrRead(lg, "auth")) => (result' = "auth_failed" /\ pc' = "idle")
    /\ (pc \in {"list", "read"} /\ (pc' # pc \/ idx' # idx) /\ pc' # "idle") => token'
    /\ (dev_r01' # dev_r01 \/ devices' # devices) => token'

\* C30 as stated: after an auth answer the token is cleared and no request is
\* sent until a login has succeeded; every failed login makes the operation
\* fail with an auth error
C30_FailedLoginIsAuthError ==
    [][/\ DeadUntilLogin
       /\ \A lg \in LoginResponses \ {"ok"}, r \in Responses :
             /\ (~token /\ (ListOrRead(lg, r) \/ WriteRequest(lg, r))) => NotSent
             /\ (~token /\ ListOrRead(lg, r))
                => (result' = "auth_failed" /\ pc' = "idle")]_vars

\* C30 amended: after an auth answer the token is cleared and no request is
\* sent until a login has succeeded; a refused login makes the operation fail
\* with an auth error and a login that does not reach the server with a
\* connectivity error, in both cases without sending the request
C30_FailedLoginFailsByItsKind ==
    [][/\ DeadUntilLogin
       /\ \A lg \in LoginResponses \ {"ok"}, r \in Responses :
             /\ (~token /\ (ListOrRead(lg, r) \/ WriteRequest(lg, r))) => NotSent
             /\ (~token /\ ListOrRead(lg, r))
                => /\ result' = (IF lg = "fail" THEN "auth_failed" ELSE "update_failed")
                   /\ pc' = "idle"]_vars

\* after a cycle that succeeded the token was lost to an auth answer, and the
\* login of a later cycle did not reach the server: the cycle failed as
\* retryable, the token is still absent and the snapshot is the old one
C30_Witness ==
    /\ client
    /\ ~token
    /\ pc = "idle"
    /\ result = "update_failed"
    /\ data # NoData

\* the snapshot is the first one after the move of the driver, or a later one
FirstAfterMove(d) ==
    GetDeviceParam(d, "T02") = Num(1310)
LaterAfterMove(d) ==
    GetDeviceParam(d, "T02") = Num(1320)

\* the setpoint the snapshot calls for, for the stored target
IdealSetpoint(d) == CalculateR01FromMinimumTarget(d, minimum_target[d].v)

\* what holds of the scenario whatever the number of writes: the control
\* stays enabled, a cycle after the first issues no write, and at its end
\* both baselines are the current values and the setpoint is within 0.1 of
\* the ideal one
ConvergesAfterMove(d) ==
    /\ (FirstAfterMove(d) \/ LaterAfterMove(d)) => minimum_control_enabled'[d]
    /\ (LaterAfterMove(d) /\ pc = "pass" /\ pc' = "idle")
       => /\ Len(writes) = 0
          /\ last_max_temp'[d] = GetMaxTemp(d)
          /\ last_r01'[d] = Num(dev_r01[d])
          /\ GetDeviceParam(d, "R01") = Num(dev_r01[d])
          /\ Abs(dev_r01[d] - IdealSetpoint(d).v) <= Threshold

\* C31 as stated: after one move of the driver from a steady state the
\* controller issues exactly one write in total, in the first cycle after
\* the move, stays enabled and has converged from the second cycle on
C31_ExactlyOneWrite ==
    [][/\ ConvergesAfterMove("d1")
       /\ (FirstAfterMove("d1") /\ pc = "pass" /\ pc' = "idle")
          => Len(writes) = 1]_vars

\* C31 amended: the controller issues one write, in the first cycle after the
\* move, when the ideal setpoint differs from the current one by more than
\* 0.1, and none at all otherwise; it stays enabled and has converged from
\* the second cycle on
C31_OneWriteWhenSetpointIsOff ==
    [][/\ ConvergesAfterMove("d1")
       /\ (FirstAfterMove("d1") /\ pc = "pass" /\ pc' = "idle")
          => /\ Len(writes) =
                   (IF Abs(IdealSetpoint("d1").v - GetDeviceParam("d1", "R01").v) > Threshold
                    THEN 1 ELSE 0)
             /\ \A i \in 1..Len(writes) : writes[i].value = IdealSetpoint("d1").v]_vars

\* two cycles after the driver moved from 70.0 to 70.3 degC with a target of
\* 50 degC: the setpoint 60.15 was written once and both baselines caught up
C31_Witness ==
    /\ pc = "idle"
    /\ LaterAfterMove("d1")
    /\ minimum_control_enabled["d1"]
    /\ minimum_target["d1"] = Float(1000)
    /\ dev_r01["d1"] = 1203
    /\ last_r01["d1"] = Float(1203)
    /\ last_max_temp["d1"] = Float(1406)

\* C32: the pass of the first cycle after a target was set (the control was
\* enabled with the target and the setpoint calculated for it was written,
\* and this cycle read that setpoint back) leaves the control enabled with
\* that target, whatever the control went through before
C32_SettingATargetKeepsControl ==
    [][\A d \in DeviceCodes :
          (/\ PassAt(d)
           /\ pidx' = pidx + 1
           /\ minimum_control_enabled[d]
           /\ ext_seen[d]
           /\ Readable(d)
           /\ GetDeviceParam(d, "R01") = IdealSetpoint(d))
          => (minimum_control_enabled'[d] /\ GetMinimumTarget(d)' = minimum_target[d])]_vars

\* twice the ideal setpoint of the snapshot for the stored target, without
\* the halving: the sum of target and driver clamped to twice the bounds
TwiceIdeal(d) ==
    Max2(2 * MIN_TEMP, Min2(2 * MAX_TEMP, minimum_target[d].v + GetMaxTemp(d).v))

\* C33: from an enabled control whose setpoint is the ideal one, with every
\* write succeeding and no external write, at the end of every cycle in which
\* the control is enabled and no write was issued the setpoint of the device
\* is within 0.1 of the ideal one for the driver just read, however the
\* driver moved
C33_TrackingErrorIsBounded ==
    [][\A d \in DeviceCodes :
          (/\ pc = "pass" /\ pc' = "idle"
           /\ d \in DOMAIN data
           /\ minimum_control_enabled[d]
           /\ GetMaxTemp(d) # None
           /\ Len(writes) = 0)
          => Abs(2 * dev_r01[d] - TwiceIdeal(d)) <= 2 * Threshold]_vars

\* C34: every value the controller writes or is about to write is within
\* [38, 75] and goes to R01; a write is started only by a pass that takes the
\* driver-change branch, and reaches the device only when that write
\* returns: enable, disable and a pass that takes any other branch start no
\* write and leave the register as it is
C34_WritesAreLegalAndFromDriverChange ==
    /\ [](\A i \in 1..Len(writes) :
               /\ writes[i].code = "R01"
               /\ MIN_TEMP <= writes[i].value /\ writes[i].value <= MAX_TEMP)
    /\ []((pc = "write") => (MIN_TEMP <= pending.v /\ pending.v <= MAX_TEMP))
    /\ [][(pc # "write" /\ pc' = "write")
              => (PassAt(Order[pidx]) /\ Branch(Order[pidx]) = "write")]_vars
    /\ [][(writes' # writes /\ writes' # <<>>)
              => (pc = "write" /\ writes' = Append(writes,
                     [dev |-> Order[pidx], code |-> "R01", value |-> pending.v,
                      ok |-> writes'[Len(writes')].ok]))]_vars
    /\ [][\A d \in DeviceCodes :
              (\/ \E t \in LegalTargets : EnableMinimumControl(d, t)
               \/ DisableMinimumControl(d)
               \/ (PassAt(d) /\ pidx' = pidx + 1))
              => (writes' = writes /\ dev_r01' = dev_r01 /\ pending' = pending
                  /\ (pc' = "write" => pc = "write"))]_vars
    /\ [][(dev_r01' # dev_r01)
              => (ExternalWrite("d1", 1300) \/ (pc = "write" /\ pc' = "pass"))]_vars

\* a target of 200 degC was clamped: with the driver at 70.3 degC the mean is
\* 135.15 degC and the write that reached the device carried 75.0
C34_Witness ==
    /\ Len(writes) = 1
    /\ writes[1].ok
    /\ writes[1].value = MAX_TEMP
    /\ dev_r01["d1"] = MAX_TEMP
    /\ minimum_target["d1"] = Float(4000)
    /\ GetMaxTemp("d1") = Float(1406)

\* what every step does that leaves the control of d disabled: the target and
\* the driver baseline stay, and the pass for d starts no write
DisabledControlIsLeftAlone(d) ==
    (~minimum_control_enabled[d] /\ ~minimum_control_enabled'[d])
    => /\ minimum_target'[d] = minimum_target[d]
       /\ last_max_temp'[d] = last_max_temp[d]
       /\ PassAt(d) => (pc' = "pass" /\ writes' = writes /\ dev_r01' = dev_r01)

\* C35 as stated: while the control of a device is disabled no step of a poll
\* cycle issues a write for it or changes its target, its driver baseline or
\* its setpoint baseline
C35_DisabledControlIsFrozen ==
    [][\A d \in DeviceCodes :
          /\ DisabledControlIsLeftAlone(d)
          /\ (~minimum_control_enabled[d] /\ ~minimum_control_enabled'[d])
             => last_r01'[d] = last_r01[d]]_vars

\* C35 amended: a pass that finds the control disabled issues no write and
\* changes nothing of it, whatever the registers read; the setpoint baseline
\* of a disabled control changes only when a write that its pass was already
\* awaiting when the control was disabled returns, and then to the setpoint
\* written
C35_DisabledControlIsFrozenButForAWriteInFlight ==
    [][\A d \in DeviceCodes :
          /\ DisabledControlIsLeftAlone(d)
          /\ (~minimum_control_enabled[d] /\ ~minimum_control_enabled'[d]
                 /\ last_r01'[d] # last_r01[d])
             => (pc = "write" /\ Order[pidx] = d /\ last_r01'[d] = pending
                 /\ taken.before.enabled)]_vars

\* the pass for d1 found the control disabled while the registers had moved:
\* the driver reads 70.3 degC and the setpoint 65 degC, and the baselines are
\* still those of the time the control was enabled
C35_Witness ==
    /\ pc = "pass"
    /\ pidx = 2
    /\ taken # NoPass
    /\ taken.dev = "d1"
    /\ ~taken.before.enabled
    /\ GetMaxTemp("d1") = Float(1406)
    /\ GetDeviceParam("d1", "R01") = Float(1300)
    /\ last_max_temp["d1"] = Float(1400)
    /\ last_r01["d1"] = Float(1200)
    /\ CtlOf("d1") = taken.before

\* setup has not reached Ready: no client was built, or no listing of the
\* devices has succeeded yet (every listing of these runs returns a device)
NotReady == ~client \/ devices = <<>>

\* C36: a cycle started before setup has reached Ready, be it before any
\* setup or after one whose login or listing failed, ends at once as a
\* retryable failure and goes on to no transport call
C36_NoCycleBeforeReady ==
    [][(StartCycle /\ NotReady)
          => (pc' = "idle" /\ result' = "update_failed")]_vars

\* the messages of the answers that name the token or the authorization, in
\* whatever case, and those that name neither
AuthMessages == { TokenExpired, InvalidToken, Unauthorized, AuthFailed }
OtherMessages == { DeviceOffline, UnknownError }

\* the last call was a list, read or write whose request reached the server
RequestReached ==
    /\ calc.op \in {"list", "read", "write"}
    /\ calc.had_token \/ calc.login_answer = Answer(Success, TRUE)

\* the last call was a list, read or write that had to log in first
LoginMade ==
    /\ calc.op \in {"list", "read", "write"}
    /\ ~calc.had_token

\* C37: a non-success answer whose message contains token or auth in any
\* case is an auth error and clears the token; any other non-success answer
\* is a connectivity error for list and read and a false return, with the
\* token kept, for write; a refused login is always an auth error and a
\* client error of the transport always a connectivity error
C37_ErrorClassification ==
    /\ (RequestReached /\ calc.answer # ClientError)
       => /\ calc.answer.error_msg \in AuthMessages => (calc.ret = "auth" /\ ~token)
          /\ calc.answer.error_msg \in OtherMessages
             => /\ calc.op \in {"list", "read"} => calc.ret = "conn"
                /\ calc.op = "write" => (calc.ret = "false" /\ token)
    /\ (RequestReached /\ calc.answer = ClientError) => calc.ret = "conn"
    /\ (LoginMade /\ calc.login_answer \in
            {Answer(WrongPassword, FALSE), Answer(TokenExpired, FALSE), Answer(Success, FALSE)})
       => (calc.ret = "auth" /\ ~token)
    /\ (LoginMade /\ calc.login_answer = ClientError) => (calc.ret = "conn" /\ ~token)

\* a write that held a token was answered "invalid x-TOKEN": it raised the
\* auth error and the token is gone
C37_Witness ==
    /\ calc.op = "write"
    /\ calc.had_token
    /\ calc.answer = Answer(InvalidToken, FALSE)
    /\ calc.ret = "auth"
    /\ ~token

\* the COP pass of device d finds a valid sample: the meter strictly above the
\* recorded reading, and the stored energy readable now and at that reading
ValidSample(d) ==
    /\ CopPassOf(d)
    /\ energy_meter.k = "num"
    /\ cop_last_energy_meter[d].k = "num"
    /\ energy_meter.v > cop_last_energy_meter[d].v
    /\ StoredNow(d) # Absent
    /\ cop_energy_stored_at_meter_change[d] # Absent

====
